---- MODULE Spec2Model ----
(***************************************************************************)
(* chaos-duck backend: the experiment execution engine.                    *)
(*                                                                         *)
(*   SpecRM  the RollbackManager (safety/rollback.py) used by arbitrary    *)
(*           concurrent client tasks                                       *)
(*   Spec    the HTTP surface (main.py, routers/chaos.py) running          *)
(*           experiments through ExperimentContext (safety/guardrails.py)  *)
(*   SpecHC  one HealthCheckLoop (safety/health_check.py)                  *)
(*                                                                         *)
(* Coroutines are cut at their await expressions: one action is the effect *)
(* of the awaited call followed by the synchronous code up to the next     *)
(* await.  An awaited call may suspend, so other tasks may run between two *)
(* actions of one coroutine.                                               *)
(***************************************************************************)
EXTENDS Integers, Sequences, FiniteSets, TLC

\* ------------------------------------------------------------------------
\* Bounds
\* ------------------------------------------------------------------------
MaxPush == 3          \* closures pushed by the client tasks of SpecRM
MaxRunning == 1       \* create_experiment requests in flight at a time
MaxProbes == 2        \* probes given to a HealthCheckLoop
MaxThreshold == 2     \* failure_threshold given to a HealthCheckLoop
MaxCycles == 3        \* probe sweeps a HealthCheckLoop gets to start
MaxLoopPush == 2      \* compensates registered while a HealthCheckLoop runs
MaxStarts == 2        \* times a HealthCheckLoop gets a task created
MaxPods == 3          \* pods matched by a selector, pods in a namespace
RatioDen == 10        \* max_blast_radius is a number of tenths
MaxName == 2          \* length of a namespace name and of a glob pattern
MaxItems == 2         \* items returned by a query of the infrastructure

ExpIds == {"e1", "e2"}            \* experiment ids in play
Tasks == {"t1", "t2"}             \* client tasks of the RollbackManager
Descriptions == {"pod_delete", "ec2_stop"}
NoId == "none"

VARIABLES
    stacks,       \* RollbackManager._stacks: ordered dict id -> list of entries
    calls,        \* SpecRM: per client task, its RollbackManager.rollback call frame
    allCall,      \* SpecRA: the frame of the task that calls rollback_all
    nextFn,       \* number of compensate closures created so far
    execLog,      \* history of compensate invocations (start / success / failed)
    pushedSince   \* history: ids pushed to since the last rollback call on them

rmVars == <<stacks, calls, allCall, nextFn, execLog, pushedSince>>

VARIABLES
    estop,                 \* guardrails.emergency_stop_manager._event
    emergency_stop_event,  \* main.emergency_stop_event
    pc,            \* per create_experiment request: the await it is suspended at
    config,        \* per request: the submitted ExperimentConfig
    health_loop,   \* per request: its ExperimentContext has a _health_loop
    rec,           \* per request: the ExperimentRecord object of its session
    db,            \* the experiments table: id -> committed row
    snapshots,     \* SnapshotManager._snapshots: ids with a stored snapshot
    runRb,         \* per request: frame of the rollback() awaited in __aexit__
    response,      \* per request: what create_experiment gave its caller
    apiPc,         \* per id: rollback_experiment request, the await it is at
    apiRb,         \* per id: frame of the rollback() awaited by that request
    target,        \* per experiment: state of the infrastructure it aims at
    actuated,      \* history: experiments whose chaos function was called
    stopPosted,    \* history: POST /emergency-stop returned, no reset since
    stoppedMidRun, \* history: latch triggered after inject, before observe
    dry,           \* the POST /api/chaos/dry-run request: position, config, outcome
    fnCall         \* the last call of a guard or engine function: arguments, result

runVars == <<pc, config, health_loop, rec, runRb, response>>
apiVars == <<apiPc, apiRb>>
stopVars == <<estop, emergency_stop_event, stopPosted>>
sysVars ==
    <<runVars, apiVars, stopVars, stoppedMidRun, db, snapshots, target,
      actuated, dry, fnCall>>

VARIABLES
    hcConf,      \* the HealthCheckLoop's constructor arguments
    hc,          \* its fields, the position of its task and of a stop() call
    hcRb,        \* frame of the rollback() awaited by the loop
    cycleLog,    \* history: outcome of every finished probe sweep
    triggers     \* history: number of trigger invocations (on_failure / rollback)

hcVars == <<hcConf, hc, hcRb, cycleLog, triggers>>

VARIABLES
    ctx,         \* an ExperimentContext used with probes: position, _health_loop
    ctxRb        \* frame of the rollback() awaited by its __aexit__

ctxVars == <<ctx, ctxRb>>

vars == <<rmVars, sysVars, hcVars, ctxVars>>

\* ------------------------------------------------------------------------
\* Python dict[str, list] (insertion ordered), as a sequence of items
\* ------------------------------------------------------------------------
DictKeys(d) == [k \in 1..Len(d) |-> d[k].id]

DictHas(d, id) == \E k \in 1..Len(d) : d[k].id = id

\* dict.get(id, [])
DictGet(d, id) ==
    IF DictHas(d, id)
    THEN d[CHOOSE k \in 1..Len(d) : d[k].id = id].list
    ELSE <<>>

\* dict.pop(id, []): the dict without the key
DictPop(d, id) == SelectSeq(d, LAMBDA item : item.id # id)

\* defaultdict(list)[id].append(entry): a missing key is created at the end
DictAppend(d, id, entry) ==
    IF DictHas(d, id)
    THEN [k \in 1..Len(d) |->
            IF d[k].id = id THEN [d[k] EXCEPT !.list = Append(@, entry)] ELSE d[k]]
    ELSE Append(d, [id |-> id, list |-> <<entry>>])

\* ------------------------------------------------------------------------
\* RollbackManager (safety/rollback.py)
\* ------------------------------------------------------------------------
\* A compensate closure is named by the number of the push that created it.
\* What it returns, and the text of the error it raises:
RetVal(fn) == <<"ret", fn>>
ErrText(fn) == <<"err", fn>>

\* RollbackManager.push
push(d, experiment_id, rollback_fn, description) ==
    DictAppend(d, experiment_id,
               [description |-> description, rollback_fn |-> rollback_fn])

\* RollbackManager.get_stack_size
get_stack_size(d, experiment_id) == Len(DictGet(d, experiment_id))

\* RollbackManager.get_active_experiments
get_active_experiments(d) == DictKeys(d)

\* reversed(stack)
reversedFwd(s) == s
reversed(s) == [j \in 1..Len(s) |-> s[Len(s) + 1 - j]]

\* The frame of one rollback(experiment_id) call: `stack` is the detached
\* list, `i` the position in reversed(stack) of the entry whose compensate is
\* being awaited, `results` the list built so far.
IdleCall == [pc |-> "idle", id |-> NoId, stack |-> <<>>, i |-> 0, results |-> <<>>]

\* rollback(), from its entry to the first await: stack = _stacks.pop(id, []),
\* then the first compensate of reversed(stack) is called.
RollbackDetached(d, experiment_id) == DictGet(d, experiment_id)

RollbackEnter(d, experiment_id) ==
    LET stack == RollbackDetached(d, experiment_id) IN
    IF stack = <<>>
    THEN [pc |-> "done", id |-> experiment_id, stack |-> stack, i |-> 0,
          results |-> <<>>]
    ELSE [pc |-> "await", id |-> experiment_id, stack |-> stack,
          i |-> 1, results |-> <<>>]

\* what _stacks is after the pop
RollbackRemainingKeep(d, experiment_id) == d
RollbackRemainingClear(d, experiment_id) == <<>>
RollbackRemaining(d, experiment_id) == DictPop(d, experiment_id)

\* rollback_all not called: no ids to go through, no result yet; nextFn0 is
\* history, the number of closures created when the call was made
IdleAll ==
    [pc |-> "idle", experiment_ids |-> <<>>, todo |-> <<>>, frame |-> IdleCall,
     all_results |-> <<>>, nextFn0 |-> 0, stacks0 |-> <<>>]

\* all_results[experiment_id] = the results of the frame (its detached stack
\* is kept as history)
AllResultsSet(all_results, frame) ==
    Append(all_results,
           [id |-> frame.id, results |-> frame.results, stack |-> frame.stack])

\* rollback_all: `experiment_ids = list(self._stacks.keys())`
RollbackAllIdsNone(d) == <<>>
RollbackAllIds(d) == get_active_experiments(d)

RECURSIVE RollbackAllLoop(_, _)
\* rollback_all: its for loop from the top, on the stacks d, up to the first
\* compensate awaited or, the ids being done, to the return
RollbackAllLoop(d, a) ==
    IF a.todo = <<>>
    THEN [stacks |-> d, call |-> [a EXCEPT !.pc = "done", !.frame = IdleCall]]
    ELSE LET experiment_id == Head(a.todo)
             frame == RollbackEnter(d, experiment_id)
             rest == [a EXCEPT !.todo = Tail(@)]
         IN  IF frame.pc = "await"
             THEN [stacks |-> RollbackRemaining(d, experiment_id),
                   call |-> [rest EXCEPT !.pc = "await", !.frame = frame]]
             ELSE RollbackAllLoop(
                      RollbackRemaining(d, experiment_id),
                      [rest EXCEPT !.all_results = AllResultsSet(@, frame)])

\* the ids of a sequence
Range(seq) == {seq[k] : k \in 1..Len(seq)}

\* the entry whose compensate the frame awaits
RollbackEntry(frame) == reversed(frame.stack)[frame.i]

\* the result dict appended for the awaited compensate
RollbackResult(entry, ok) ==
    IF ok
    THEN [description |-> entry.description, status |-> "success",
          result |-> RetVal(entry.rollback_fn)]
    ELSE [description |-> entry.description, status |-> "failed",
          error |-> ErrText(entry.rollback_fn)]

\* rollback(), from the return (ok) or raise (~ok) of the awaited compensate
\* to the next await or to the return of the results
RollbackResumeAbort(frame, ok) ==
    LET res == Append(frame.results, RollbackResult(RollbackEntry(frame), ok))
    IN  IF ok /\ frame.i < Len(frame.stack)
        THEN [frame EXCEPT !.i = frame.i + 1, !.results = res]
        ELSE [frame EXCEPT !.pc = "done", !.i = 0, !.results = res]
RollbackResume(frame, ok) ==
    LET res == Append(frame.results, RollbackResult(RollbackEntry(frame), ok))
    IN  IF frame.i < Len(frame.stack)
        THEN [frame EXCEPT !.i = frame.i + 1, !.results = res]
        ELSE [frame EXCEPT !.pc = "done", !.i = 0, !.results = res]

\* the invocation history: the compensate called on entry, if any
LogEnter(log, frame) ==
    IF frame.pc = "await"
    THEN Append(log, [fn |-> RollbackEntry(frame).rollback_fn, ev |-> "start"])
    ELSE log

\* the invocation history: outcome of the awaited compensate, then the next call
LogResume(log, frame, ok) ==
    LogEnter(Append(log, [fn |-> RollbackEntry(frame).rollback_fn,
                          ev |-> IF ok THEN "success" ELSE "failed"]),
             RollbackResume(frame, ok))

\* ------------------------------------------------------------------------
\* Emergency stop, records, configs (safety/guardrails.py, main.py,
\* models/experiment.py, db_models.py)
\* ------------------------------------------------------------------------
NoRec == [status |-> "none"]
NoNs == "none"

\* the configs submitted: ExperimentConfig with its SafetyConfig.dry_run and
\* its probes, each probe given by its mode; the k8s experiment names a
\* target_namespace, the aws one does not
Configs ==
    {cfg \in [chaos_type : {"pod_delete", "ec2_stop"},
              target_namespace : {NoNs, "default"},
              dry_run : BOOLEAN,
              probes : {<<>>}] :
        (cfg.chaos_type = "ec2_stop") <=> (cfg.target_namespace = NoNs)}

\* the same configs, with probes
ProbeLists == {<<>>, <<"sot">>, <<"continuous">>, <<"sot", "continuous">>}
ProbedConfigs ==
    {[cfg EXCEPT !.probes = probes] : cfg \in Configs, probes \in ProbeLists}

\* create_experiment: `ExperimentContext(experiment_id, config)` gives no
\* probes argument, and __init__ keeps `probes or []`
ContextProbes(cfg) == <<>>

\* __aenter__: [p for p in self.probes if p.mode == "continuous"]
continuous_probes(probes) == SelectSeq(probes, LAMBDA mode : mode = "continuous")

\* __aenter__: `if continuous_probes`, a HealthCheckLoop is built and started
StartsLoop(cfg) == continuous_probes(ContextProbes(cfg)) # <<>>

\* EmergencyStopManager.is_triggered
is_triggered(event) == event

\* ExperimentRecord(id, config, status=RUNNING, phase=STEADY_STATE, started_at=now)
NewRecord ==
    [status |-> "running", phase |-> "steady_state", started_at |-> TRUE,
     completed_at |-> FALSE, steady_state |-> FALSE, injection_result |-> "none",
     observations |-> FALSE, error |-> "none",
     phases |-> <<"steady_state">>]    \* history: the values given to phase

\* rec.phase = p
SetPhase(r, p) == [r EXCEPT !.phase = p, !.phases = Append(@, p)]

\* no function called yet
NoCall == [fn |-> "none"]

\* no dry-run request yet; `target` is the state of what the request aims at
NoDry ==
    [pc |-> "idle", submitted |-> NoRec, config |-> NoRec, status |-> "none",
     injection_result |-> "none", target |-> "intact"]

InitSystem ==
    /\ estop = FALSE
    /\ emergency_stop_event = FALSE
    /\ pc = [e \in ExpIds |-> "idle"]
    /\ config = [e \in ExpIds |-> NoRec]
    /\ health_loop = [e \in ExpIds |-> FALSE]
    /\ rec = [e \in ExpIds |-> NoRec]
    /\ db = [e \in ExpIds |-> NoRec]
    /\ snapshots = {}
    /\ runRb = [e \in ExpIds |-> IdleCall]
    /\ response = [e \in ExpIds |-> "none"]
    /\ apiPc = [e \in ExpIds |-> "idle"]
    /\ apiRb = [e \in ExpIds |-> IdleCall]
    /\ target = [e \in ExpIds |-> "intact"]
    /\ actuated = {}
    /\ stopPosted = FALSE
    /\ stoppedMidRun = {}
    /\ dry = NoDry
    /\ fnCall = NoCall

\* ------------------------------------------------------------------------
\* HealthCheckLoop (safety/health_check.py)
\* ------------------------------------------------------------------------
LoopId == "e1"     \* the experiment_id the loop is constructed with

\* HealthCheckLoop.__init__: no task, stop signal clear, counter 0, no results;
\* `at` is the await the task is suspended at, `stopping` whether a stop()
\* call is awaiting the task; history: `tasks` counts the tasks created and
\* not finished, `starts` the tasks created, `sweeps` the sweeps started
NewLoop ==
    [task |-> "none", at |-> "none", stopped |-> FALSE,
     consecutive_failures |-> 0, probe |-> 0, all_passed |-> TRUE,
     results |-> <<>>, stopping |-> FALSE,
     tasks |-> 0, starts |-> 0, sweeps |-> 0]

\* the loop as constructed before an experiment that does not use it
InitLoop ==
    /\ hcConf = [probes |-> 0, failure_threshold |-> 1, on_failure |-> FALSE]
    /\ hc = NewLoop
    /\ hcRb = IdleCall
    /\ cycleLog = <<>>
    /\ triggers = 0

\* ExperimentContext.__init__: not entered, _health_loop = None; `exc` is
\* whether the body raised
NewContext == [pc |-> "new", exc |-> FALSE, health_loop |-> FALSE]

InitContext ==
    /\ ctx = NewContext
    /\ ctxRb = IdleCall

\* ------------------------------------------------------------------------
\* SpecRM: client tasks pushing and rolling back concurrently
\* ------------------------------------------------------------------------
InitManager ==
    /\ stacks = <<>>
    /\ calls = [t \in Tasks |-> IdleCall]
    /\ allCall = IdleAll
    /\ nextFn = 0
    /\ execLog = <<>>
    /\ pushedSince = {}

InitRM == InitManager /\ InitSystem /\ InitLoop /\ InitContext

\* some task calls rollback_manager.push(id, fn, description) with a new closure
Push(id, description) ==
    /\ nextFn < MaxPush
    /\ nextFn' = nextFn + 1
    /\ stacks' = push(stacks, id, nextFn + 1, description)
    /\ pushedSince' = pushedSince \cup {id}
    /\ UNCHANGED <<calls, allCall, execLog, sysVars>>
    /\ UNCHANGED hcVars
    /\ UNCHANGED ctxVars

\* task t calls rollback_manager.rollback(id)
RollbackCall(t, id) ==
    /\ calls[t].pc = "idle"
    /\ calls' = [calls EXCEPT ![t] = RollbackEnter(stacks, id)]
    /\ UNCHANGED allCall
    /\ stacks' = RollbackRemaining(stacks, id)
    /\ execLog' = LogEnter(execLog, RollbackEnter(stacks, id))
    /\ pushedSince' = pushedSince \ {id}
    /\ UNCHANGED <<nextFn, sysVars>>
    /\ UNCHANGED hcVars
    /\ UNCHANGED ctxVars

\* the compensate awaited by task t's rollback returns or raises
RollbackStep(t, ok) ==
    /\ calls[t].pc = "await"
    /\ calls' = [calls EXCEPT ![t] = RollbackResume(calls[t], ok)]
    /\ UNCHANGED allCall
    /\ execLog' = LogResume(execLog, calls[t], ok)
    /\ UNCHANGED <<stacks, nextFn, pushedSince, sysVars>>
    /\ UNCHANGED hcVars
    /\ UNCHANGED ctxVars

\* task t's rollback call has returned its results; the task goes on
RollbackReturn(t) ==
    /\ calls[t].pc = "done"
    /\ calls' = [calls EXCEPT ![t] = IdleCall]
    /\ UNCHANGED allCall
    /\ UNCHANGED <<stacks, nextFn, execLog, pushedSince, sysVars>>
    /\ UNCHANGED hcVars
    /\ UNCHANGED ctxVars

\* the loop of rollback_all goes on from call frame a
RollbackAllGoesOn(a, log) ==
    LET r == RollbackAllLoop(stacks, a) IN
    /\ allCall' = r.call
    /\ stacks' = r.stacks
    /\ execLog' = LogEnter(log, r.call.frame)
    /\ pushedSince' = pushedSince \ (Range(a.todo) \ Range(r.call.todo))

\* a task calls rollback_manager.rollback_all()
RollbackAllCall ==
    /\ allCall.pc = "idle"
    /\ RollbackAllGoesOn([IdleAll EXCEPT !.experiment_ids = RollbackAllIds(stacks),
                                         !.todo = RollbackAllIds(stacks),
                                         !.nextFn0 = nextFn,
                                         !.stacks0 = stacks],
                         execLog)
    /\ UNCHANGED <<calls, nextFn, sysVars>>
    /\ UNCHANGED hcVars
    /\ UNCHANGED ctxVars

\* the compensate awaited by the rollback of rollback_all returns or raises
RollbackAllStep(ok) ==
    /\ allCall.pc = "await"
    /\ LET frame == RollbackResume(allCall.frame, ok)
           log == LogResume(execLog, allCall.frame, ok)
       IN  IF frame.pc = "await"
           THEN /\ allCall' = [allCall EXCEPT !.frame = frame]
                /\ execLog' = log
                /\ UNCHANGED <<stacks, pushedSince>>
           ELSE RollbackAllGoesOn(
                    [allCall EXCEPT !.all_results = AllResultsSet(@, frame)],
                    log)
    /\ UNCHANGED <<calls, nextFn, sysVars>>
    /\ UNCHANGED hcVars
    /\ UNCHANGED ctxVars

\* rollback_all has returned all_results; the task goes on
RollbackAllReturn ==
    /\ allCall.pc = "done"
    /\ allCall' = IdleAll
    /\ UNCHANGED <<stacks, calls, nextFn, execLog, pushedSince, sysVars>>
    /\ UNCHANGED hcVars
    /\ UNCHANGED ctxVars

NextRM ==
    \/ \E id \in ExpIds, description \in Descriptions : Push(id, description)
    \/ \E t \in Tasks, id \in ExpIds : RollbackCall(t, id)
    \/ \E t \in Tasks, ok \in BOOLEAN : RollbackStep(t, ok)
    \/ \E t \in Tasks : RollbackReturn(t)

SpecRM == InitRM /\ [][NextRM]_vars

\* the RollbackManager with a task that calls rollback_all and another that
\* calls rollback
OtherTask == "t1"

NextRA ==
    \/ \E id \in ExpIds, description \in Descriptions : Push(id, description)
    \/ \E id \in ExpIds : RollbackCall(OtherTask, id)
    \/ \E ok \in BOOLEAN : RollbackStep(OtherTask, ok)
    \/ RollbackReturn(OtherTask)
    \/ RollbackAllCall
    \/ \E ok \in BOOLEAN : RollbackAllStep(ok)
    \/ RollbackAllReturn

SpecRA == InitRM /\ [][NextRA]_vars

\* ------------------------------------------------------------------------
\* Spec: the HTTP surface running experiments
\* ------------------------------------------------------------------------
\* create_experiment: the emergency-stop check on entry
CreateRefusesMainEvent == is_triggered(emergency_stop_event)
CreateRefuses == is_triggered(estop)

\* create_experiment: the except clause
Failed(r, err) == [r EXCEPT !.status = "failed", !.error = err]

\* create_experiment: the end of the try body
CompletedAtObserve(r) ==
    [r EXCEPT !.status = "completed", !.completed_at = TRUE]
Completed(r) ==
    [SetPhase(r, "rollback") EXCEPT !.status = "completed", !.completed_at = TRUE]

\* ExperimentContext.__aexit__: `if exc_type is not None` (no health loop is
\* ever attached: create_experiment passes no probes)
ExitRollsBackNever(exc) == FALSE
ExitRollsBack(exc) == exc

\* what leaves create_experiment when the context has been left with an
\* exception: the error the except clause recorded, or the CancelledError
\* that `except Exception` does not catch
Raised(r) == IF r.status = "failed" THEN r.error ELSE "cancelled"

\* ExperimentContext.__aexit__ on the stacks d, then the code of
\* create_experiment up to its next await
ExitContext(e, exc, d, ps) ==
    LET rolls == ExitRollsBack(exc)
        frame == IF rolls THEN RollbackEnter(d, e) ELSE IdleCall
    IN  /\ stacks' = IF rolls THEN RollbackRemaining(d, e) ELSE d
        /\ execLog' = LogEnter(execLog, frame)
        /\ pushedSince' = IF rolls THEN ps \ {e} ELSE ps
        /\ runRb' = [runRb EXCEPT ![e] = frame]
        /\ pc' = [pc EXCEPT ![e] =
                    IF frame.pc = "await" THEN "rollback"
                    ELSE IF exc THEN "raised" ELSE "final_commit"]
        /\ response' = [response EXCEPT ![e] =
                    IF frame.pc # "await" /\ exc THEN Raised(rec[e]) ELSE @]

\* history: a request that has ended is forgotten
Terminal == {"returned", "raised", "refused"}
MidRunAfter == {e \in stoppedMidRun : pc'[e] \notin Terminal}

\* POST /api/chaos/experiments, up to `await session.commit()`
CreateExperiment(e, cfg) ==
    /\ pc[e] = "idle"
    /\ dry.pc = "idle"
    /\ Cardinality({f \in ExpIds : pc[f] \notin Terminal \cup {"idle"}}) < MaxRunning
    /\ IF CreateRefuses
       THEN /\ pc' = [pc EXCEPT ![e] = "refused"]
            /\ response' = [response EXCEPT ![e] = "503"]
            /\ UNCHANGED <<config, rec>>
       ELSE /\ pc' = [pc EXCEPT ![e] = "commit"]
            /\ config' = [config EXCEPT ![e] = cfg]
            /\ rec' = [rec EXCEPT ![e] = NewRecord]
            /\ UNCHANGED response
    /\ UNCHANGED <<rmVars, health_loop, runRb, apiVars, stopVars, db, snapshots,
                   target, actuated>>
    /\ stoppedMidRun' = MidRunAfter
    /\ UNCHANGED hcVars
    /\ UNCHANGED ctxVars
    /\ UNCHANGED <<dry, fnCall>>

\* the row is committed; ExperimentContext.__aenter__ up to its first await,
\* or, with no target_namespace, on into the body up to `await chaos_fn`
EnterContext(e) ==
    /\ pc[e] = "commit"
    /\ db' = [db EXCEPT ![e] = rec[e]]
    /\ IF is_triggered(estop)
       THEN /\ pc' = [pc EXCEPT ![e] = "raised"]
            /\ response' = [response EXCEPT ![e] = "emergency_stop"]
            /\ UNCHANGED <<rec, health_loop>>
       ELSE IF config[e].target_namespace # NoNs
       THEN /\ pc' = [pc EXCEPT ![e] = "snapshot"]
            /\ UNCHANGED <<rec, response, health_loop>>
       ELSE /\ pc' = [pc EXCEPT ![e] = "inject"]
            /\ health_loop' = [health_loop EXCEPT ![e] = StartsLoop(config[e])]
            /\ rec' = [rec EXCEPT ![e] = SetPhase(@, "inject")]
            /\ UNCHANGED response
    /\ UNCHANGED <<rmVars, config, runRb, apiVars, stopVars, snapshots, target,
                   actuated>>
    /\ stoppedMidRun' = MidRunAfter
    /\ UNCHANGED hcVars
    /\ UNCHANGED ctxVars
    /\ UNCHANGED <<dry, fnCall>>

\* capture_k8s_snapshot returns; the rest of __aenter__, then the body starts,
\* up to `await get_steady_state`
CaptureSnapshot(e) ==
    /\ pc[e] = "snapshot"
    /\ snapshots' = snapshots \cup {e}
    /\ health_loop' = [health_loop EXCEPT ![e] = StartsLoop(config[e])]
    /\ pc' = [pc EXCEPT ![e] = "steady"]
    /\ UNCHANGED <<rmVars, config, rec, runRb, response, apiVars, stopVars, db,
                   target, actuated>>
    /\ stoppedMidRun' = MidRunAfter
    /\ UNCHANGED hcVars
    /\ UNCHANGED ctxVars
    /\ UNCHANGED <<dry, fnCall>>

\* get_steady_state returns (ok) or raises; up to `await chaos_fn(config)` or,
\* in the except clause, up to `await session.commit()`
SteadyState(e, ok) ==
    /\ pc[e] = "steady"
    /\ IF ok
       THEN /\ rec' = [rec EXCEPT ![e] =
                            SetPhase([@ EXCEPT !.steady_state = TRUE], "inject")]
            /\ pc' = [pc EXCEPT ![e] = "inject"]
       ELSE /\ rec' = [rec EXCEPT ![e] = Failed(@, "api_error")]
            /\ pc' = [pc EXCEPT ![e] = "fail_commit"]
    /\ UNCHANGED <<rmVars, config, health_loop, runRb, response, apiVars, stopVars, db,
                   snapshots, target, actuated>>
    /\ stoppedMidRun' = MidRunAfter
    /\ UNCHANGED hcVars
    /\ UNCHANGED ctxVars
    /\ UNCHANGED <<dry, fnCall>>

\* what the engine call can do when the latch is not set
InjectOutcomes(cfg) ==
    {"ok", "api_error"}
        \cup (IF cfg.chaos_type = "pod_delete" THEN {"blast_radius"} ELSE {})
        \cup (IF cfg.dry_run THEN {} ELSE {"partial"})

\* the engine's _check_emergency_stop
EngineRefuses == is_triggered(estop)

\* chaos_fn(config) returns or raises; then push, and up to the next await
Inject(e, outcome) ==
    /\ pc[e] = "inject"
    /\ outcome \in InjectOutcomes(config[e])
    /\ actuated' = actuated \cup {e}
    /\ IF EngineRefuses \/ outcome # "ok"
       THEN /\ rec' = [rec EXCEPT ![e] =
                  Failed(@, IF EngineRefuses THEN "emergency_stop"
                            ELSE IF outcome = "partial" THEN "api_error"
                            ELSE outcome)]
            /\ pc' = [pc EXCEPT ![e] = "fail_commit"]
            /\ target' = [target EXCEPT ![e] =
                  IF ~EngineRefuses /\ outcome = "partial" THEN "mutated" ELSE @]
            /\ UNCHANGED <<stacks, nextFn, execLog, pushedSince, runRb, response>>
       ELSE LET cfg == config[e]
                d == IF cfg.dry_run THEN stacks
                     ELSE push(stacks, e, nextFn + 1, cfg.chaos_type)
                ps == IF cfg.dry_run THEN pushedSince ELSE pushedSince \cup {e}
                r == SetPhase([rec[e] EXCEPT !.injection_result =
                                    IF cfg.dry_run THEN "dry_run" ELSE "real"],
                              "observe")
            IN  /\ target' = [target EXCEPT ![e] =
                                IF cfg.dry_run THEN @ ELSE "mutated"]
                /\ nextFn' = IF cfg.dry_run THEN nextFn ELSE nextFn + 1
                /\ IF cfg.target_namespace # NoNs
                   THEN /\ rec' = [rec EXCEPT ![e] = r]
                        /\ pc' = [pc EXCEPT ![e] = "observe"]
                        /\ stacks' = d
                        /\ pushedSince' = ps
                        /\ UNCHANGED <<execLog, runRb, response>>
                   ELSE /\ rec' = [rec EXCEPT ![e] = Completed(r)]
                        /\ ExitContext(e, FALSE, d, ps)
    /\ UNCHANGED <<calls, allCall, config, health_loop, apiVars, stopVars, db, snapshots>>
    /\ stoppedMidRun' = MidRunAfter
    /\ UNCHANGED hcVars
    /\ UNCHANGED ctxVars
    /\ UNCHANGED <<dry, fnCall>>

\* the observing get_steady_state returns (ok) or raises
Observe(e, ok) ==
    /\ pc[e] = "observe"
    /\ IF ok
       THEN /\ rec' = [rec EXCEPT ![e] = Completed([@ EXCEPT !.observations = TRUE])]
            /\ ExitContext(e, FALSE, stacks, pushedSince)
       ELSE /\ rec' = [rec EXCEPT ![e] = Failed(@, "api_error")]
            /\ pc' = [pc EXCEPT ![e] = "fail_commit"]
            /\ UNCHANGED <<stacks, execLog, pushedSince, runRb, response>>
    /\ UNCHANGED <<calls, allCall, nextFn, config, health_loop, apiVars, stopVars, db, snapshots,
                   target, actuated>>
    /\ stoppedMidRun' = MidRunAfter
    /\ UNCHANGED hcVars
    /\ UNCHANGED ctxVars
    /\ UNCHANGED <<dry, fnCall>>

\* the except clause's commit is done; raise, through __aexit__
FailCommit(e) ==
    /\ pc[e] = "fail_commit"
    /\ db' = [db EXCEPT ![e] = rec[e]]
    /\ ExitContext(e, TRUE, stacks, pushedSince)
    /\ UNCHANGED <<calls, allCall, nextFn, config, health_loop, rec, apiVars, stopVars, snapshots,
                   target, actuated>>
    /\ stoppedMidRun' = MidRunAfter
    /\ UNCHANGED hcVars
    /\ UNCHANGED ctxVars
    /\ UNCHANGED <<dry, fnCall>>

\* the compensate awaited by the rollback of __aexit__ returns or raises
RunnerRollbackStep(e, ok) ==
    /\ pc[e] = "rollback"
    /\ runRb[e].pc = "await"
    /\ LET frame == RollbackResume(runRb[e], ok)
           exc == rec[e].status # "completed"
       IN  /\ runRb' = [runRb EXCEPT ![e] = frame]
           /\ pc' = [pc EXCEPT ![e] =
                        IF frame.pc = "await" THEN "rollback"
                        ELSE IF exc THEN "raised" ELSE "final_commit"]
           /\ response' = [response EXCEPT ![e] =
                        IF frame.pc # "await" /\ exc THEN Raised(rec[e]) ELSE @]
    /\ execLog' = LogResume(execLog, runRb[e], ok)
    /\ target' = [target EXCEPT ![runRb[e].id] = IF ok THEN "restored" ELSE @]
    /\ UNCHANGED <<stacks, calls, allCall, nextFn, pushedSince, config, health_loop, rec, apiVars,
                   stopVars, db, snapshots, actuated>>
    /\ stoppedMidRun' = MidRunAfter
    /\ UNCHANGED hcVars
    /\ UNCHANGED ctxVars
    /\ UNCHANGED <<dry, fnCall>>

\* the last commit is done; the ExperimentResult is returned
FinalCommit(e) ==
    /\ pc[e] = "final_commit"
    /\ db' = [db EXCEPT ![e] = rec[e]]
    /\ pc' = [pc EXCEPT ![e] = "returned"]
    /\ response' = [response EXCEPT ![e] = "200"]
    /\ UNCHANGED <<rmVars, config, health_loop, rec, runRb, apiVars, stopVars, snapshots,
                   target, actuated>>
    /\ stoppedMidRun' = MidRunAfter
    /\ UNCHANGED hcVars
    /\ UNCHANGED ctxVars
    /\ UNCHANGED <<dry, fnCall>>

\* rollback_experiment: `if not rec` after session.get
NotFoundNever(row) == FALSE
NotFound(row) == row = NoRec

\* the position of a rollback_experiment request that has answered 404
ApiAnswered == {"not_found"}

\* POST /api/chaos/experiments/{id}/rollback: session.get returns; 404
\* without a row, else rollback() up to its first await, or, with nothing to
\* roll back, on to `await session.commit()`
RollbackExperiment(e) ==
    /\ apiPc[e] = "idle"
    /\ IF NotFound(db[e])
       THEN /\ apiPc' = [apiPc EXCEPT ![e] = "not_found"]
            /\ UNCHANGED <<stacks, execLog, pushedSince, apiRb>>
       ELSE LET frame == RollbackEnter(stacks, e)
            IN  /\ apiRb' = [apiRb EXCEPT ![e] = frame]
                /\ stacks' = RollbackRemaining(stacks, e)
                /\ execLog' = LogEnter(execLog, frame)
                /\ pushedSince' = pushedSince \ {e}
                /\ apiPc' = [apiPc EXCEPT ![e] =
                                IF frame.pc = "await" THEN "rollback" ELSE "commit"]
    /\ UNCHANGED <<calls, allCall, nextFn, runVars, stopVars, db, snapshots, target, actuated>>
    /\ UNCHANGED stoppedMidRun
    /\ UNCHANGED hcVars
    /\ UNCHANGED ctxVars
    /\ UNCHANGED <<dry, fnCall>>

\* the compensate awaited by the endpoint's rollback returns or raises
ApiRollbackStep(e, ok) ==
    /\ apiPc[e] = "rollback"
    /\ apiRb[e].pc = "await"
    /\ LET frame == RollbackResume(apiRb[e], ok)
       IN  /\ apiRb' = [apiRb EXCEPT ![e] = frame]
           /\ apiPc' = [apiPc EXCEPT ![e] =
                            IF frame.pc = "await" THEN "rollback" ELSE "commit"]
    /\ execLog' = LogResume(execLog, apiRb[e], ok)
    /\ target' = [target EXCEPT ![apiRb[e].id] = IF ok THEN "restored" ELSE @]
    /\ UNCHANGED <<stacks, calls, allCall, nextFn, pushedSince, runVars, stopVars,
                   db, snapshots, actuated>>
    /\ UNCHANGED stoppedMidRun
    /\ UNCHANGED hcVars
    /\ UNCHANGED ctxVars
    /\ UNCHANGED <<dry, fnCall>>

\* rec.status = ROLLED_BACK is committed; the results of the frame are returned
RollbackCommit(e) ==
    /\ apiPc[e] = "commit"
    /\ db' = [db EXCEPT ![e].status = "rolled_back"]
    /\ apiPc' = [apiPc EXCEPT ![e] = "idle"]
    /\ apiRb' = [apiRb EXCEPT ![e] = IdleCall]
    /\ UNCHANGED <<rmVars, runVars, stopVars, snapshots, target, actuated>>
    /\ UNCHANGED stoppedMidRun
    /\ UNCHANGED hcVars
    /\ UNCHANGED ctxVars
    /\ UNCHANGED <<dry, fnCall>>

\* the client has the 404
RollbackAnswered(e) ==
    /\ apiPc[e] \in ApiAnswered
    /\ apiPc' = [apiPc EXCEPT ![e] = "idle"]
    /\ apiRb' = [apiRb EXCEPT ![e] = IdleCall]
    /\ UNCHANGED <<rmVars, runVars, stopVars, db, snapshots, target, actuated>>
    /\ UNCHANGED stoppedMidRun
    /\ UNCHANGED hcVars
    /\ UNCHANGED ctxVars
    /\ UNCHANGED <<dry, fnCall>>

\* EmergencyStopManager.trigger
Trigger ==
    /\ estop' = TRUE
    /\ stoppedMidRun' = stoppedMidRun \cup {e \in ExpIds : pc[e] = "observe"}
    /\ UNCHANGED <<rmVars, runVars, apiVars, emergency_stop_event,
                   stopPosted, db, snapshots, target, actuated>>
    /\ UNCHANGED hcVars
    /\ UNCHANGED ctxVars
    /\ UNCHANGED <<dry, fnCall>>

\* EmergencyStopManager.reset
Reset ==
    /\ estop' = FALSE
    /\ stopPosted' = FALSE
    /\ stoppedMidRun' = {}
    /\ UNCHANGED <<rmVars, runVars, apiVars, emergency_stop_event,
                   db, snapshots, target, actuated>>
    /\ UNCHANGED hcVars
    /\ UNCHANGED ctxVars
    /\ UNCHANGED <<dry, fnCall>>

\* POST /emergency-stop
TriggerEmergencyStop ==
    /\ emergency_stop_event' = TRUE
    /\ stopPosted' = TRUE
    /\ stoppedMidRun' = stoppedMidRun \cup {e \in ExpIds : pc[e] = "observe"}
    /\ UNCHANGED <<rmVars, runVars, apiVars, estop, db, snapshots,
                   target, actuated>>
    /\ UNCHANGED hcVars
    /\ UNCHANGED ctxVars
    /\ UNCHANGED <<dry, fnCall>>

\* no request is being served
NoRequest ==
    /\ \A e \in ExpIds : pc[e] \in Terminal \cup {"idle"} /\ apiPc[e] = "idle"
    /\ dry.pc = "idle"

\* lifespan: the application starts (again, in the same process)
StartupResets ==
    /\ NoRequest
    /\ emergency_stop_event' = FALSE
    /\ estop' = FALSE
    /\ UNCHANGED <<rmVars, runVars, apiVars, stopPosted, stoppedMidRun,
                   db, snapshots, target, actuated>>
    /\ UNCHANGED hcVars
    /\ UNCHANGED ctxVars
    /\ UNCHANGED <<dry, fnCall>>
Startup ==
    /\ NoRequest
    /\ emergency_stop_event' = FALSE
    /\ UNCHANGED <<rmVars, runVars, apiVars, estop, stopPosted, stoppedMidRun,
                   db, snapshots, target, actuated>>
    /\ UNCHANGED hcVars
    /\ UNCHANGED ctxVars
    /\ UNCHANGED <<dry, fnCall>>

\* lifespan: the application shuts down
Shutdown ==
    /\ NoRequest
    /\ emergency_stop_event' = TRUE
    /\ UNCHANGED <<rmVars, runVars, apiVars, estop, stopPosted, stoppedMidRun,
                   db, snapshots, target, actuated>>
    /\ UNCHANGED hcVars
    /\ UNCHANGED ctxVars
    /\ UNCHANGED <<dry, fnCall>>

\* dry_run: `config.safety.dry_run = True`
ForcedDryRunNot(cfg) == cfg
ForcedDryRun(cfg) == [cfg EXCEPT !.dry_run = TRUE]

\* the engine mutates its target: it got past its checks, was not asked for a
\* dry run, and went through (ok) or broke off midway (partial)
Mutates(cfg, outcome) ==
    ~EngineRefuses /\ ~cfg.dry_run /\ outcome \in {"ok", "partial"}

\* POST /api/chaos/dry-run, up to `await chaos_fn(config)`: an ExperimentResult
\* with status COMPLETED is built, nothing is stored.  The request shares
\* nothing with the experiments but the latch; it is explored ahead of them.
DryRunCall(cfg) ==
    /\ dry.pc = "idle"
    /\ \A e \in ExpIds : pc[e] = "idle"
    /\ dry' = [NoDry EXCEPT !.pc = "inject", !.submitted = cfg,
                            !.config = ForcedDryRun(cfg)]
    /\ UNCHANGED <<rmVars, runVars, apiVars, stopVars, stoppedMidRun, db,
                   snapshots, target, actuated, fnCall, hcVars, ctxVars>>

\* chaos_fn(config) returns or raises; the result, its compensate dropped, is
\* returned, or the error goes to the caller
DryRunReturn(outcome) ==
    /\ dry.pc = "inject"
    /\ outcome \in InjectOutcomes(dry.config)
    /\ dry' = [dry EXCEPT
            !.pc = "returned",
            !.status = IF EngineRefuses THEN "emergency_stop"
                       ELSE IF outcome = "ok" THEN "completed"
                       ELSE IF outcome = "partial" THEN "api_error"
                       ELSE outcome,
            !.injection_result =
                       IF EngineRefuses \/ outcome # "ok" THEN "none"
                       ELSE IF dry.config.dry_run THEN "dry_run" ELSE "real",
            !.target = IF Mutates(dry.config, outcome) THEN "mutated" ELSE @]
    /\ UNCHANGED <<rmVars, runVars, apiVars, stopVars, stoppedMidRun, db,
                   snapshots, target, actuated, fnCall, hcVars, ctxVars>>

\* history: a dry-run request that has ended is forgotten, but for what it
\* did to its target
DryRunDone ==
    /\ dry.pc = "returned"
    /\ dry' = [NoDry EXCEPT !.target = dry.target]
    /\ UNCHANGED <<rmVars, runVars, apiVars, stopVars, stoppedMidRun, db,
                   snapshots, target, actuated, fnCall, hcVars, ctxVars>>

\* GET /health: the body returned in the current state
health_check == [status |-> "healthy", emergency_stop |-> emergency_stop_event]

Init == InitManager /\ InitSystem /\ InitLoop /\ InitContext

Next ==
    \/ \E e \in ExpIds, cfg \in Configs : CreateExperiment(e, cfg)
    \/ \E e \in ExpIds : EnterContext(e)
    \/ \E e \in ExpIds : CaptureSnapshot(e)
    \/ \E e \in ExpIds, ok \in BOOLEAN : SteadyState(e, ok)
    \/ \E e \in ExpIds, outcome \in {"ok", "api_error", "blast_radius", "partial"} :
            Inject(e, outcome)
    \/ \E e \in ExpIds, ok \in BOOLEAN : Observe(e, ok)
    \/ \E e \in ExpIds : FailCommit(e)
    \/ \E e \in ExpIds, ok \in BOOLEAN : RunnerRollbackStep(e, ok)
    \/ \E e \in ExpIds : FinalCommit(e)
    \/ \E e \in ExpIds : RollbackExperiment(e)
    \/ \E e \in ExpIds, ok \in BOOLEAN : ApiRollbackStep(e, ok)
    \/ \E e \in ExpIds : RollbackCommit(e)
    \/ \E e \in ExpIds : RollbackAnswered(e)
    \/ Trigger
    \/ Reset
    \/ TriggerEmergencyStop
    \/ Startup
    \/ Shutdown
    \/ \E cfg \in Configs : DryRunCall(cfg)
    \/ \E outcome \in {"ok", "api_error", "blast_radius", "partial"} :
            DryRunReturn(outcome)
    \/ DryRunDone

Spec == Init /\ [][Next]_vars

\* the experiments alone, submitted with probes in their configs
NextProbes ==
    \/ \E e \in ExpIds, cfg \in ProbedConfigs : CreateExperiment(e, cfg)
    \/ \E e \in ExpIds : EnterContext(e)
    \/ \E e \in ExpIds : CaptureSnapshot(e)
    \/ \E e \in ExpIds, ok \in BOOLEAN : SteadyState(e, ok)
    \/ \E e \in ExpIds, outcome \in {"ok", "api_error", "blast_radius", "partial"} :
            Inject(e, outcome)
    \/ \E e \in ExpIds, ok \in BOOLEAN : Observe(e, ok)
    \/ \E e \in ExpIds : FailCommit(e)
    \/ \E e \in ExpIds, ok \in BOOLEAN : RunnerRollbackStep(e, ok)
    \/ \E e \in ExpIds : FinalCommit(e)

SpecProbes == Init /\ [][NextProbes]_vars

\* the awaits of create_experiment that lie inside the body of the context
BodyAwaits == {"steady", "inject", "observe"}

\* the task serving request e is cancelled while suspended in the body:
\* CancelledError is raised at the await; it is a BaseException, so the
\* `except Exception` clause is passed by and the record is not touched;
\* __aexit__ gets the exception and awaits rollback(id); then the error
\* leaves create_experiment ahead of the last commit
Cancel(e) ==
    /\ pc[e] \in BodyAwaits
    /\ ExitContext(e, TRUE, stacks, pushedSince)
    /\ UNCHANGED <<calls, allCall, nextFn, config, health_loop, rec, apiVars,
                   stopVars, db, snapshots, target, actuated>>
    /\ stoppedMidRun' = MidRunAfter
    /\ UNCHANGED hcVars
    /\ UNCHANGED ctxVars
    /\ UNCHANGED <<dry, fnCall>>

\* the experiments alone, their tasks open to cancellation
NextCancel ==
    \/ \E e \in ExpIds, cfg \in Configs : CreateExperiment(e, cfg)
    \/ \E e \in ExpIds : EnterContext(e)
    \/ \E e \in ExpIds : CaptureSnapshot(e)
    \/ \E e \in ExpIds, ok \in BOOLEAN : SteadyState(e, ok)
    \/ \E e \in ExpIds, outcome \in {"ok", "api_error", "blast_radius", "partial"} :
            Inject(e, outcome)
    \/ \E e \in ExpIds, ok \in BOOLEAN : Observe(e, ok)
    \/ \E e \in ExpIds : FailCommit(e)
    \/ \E e \in ExpIds, ok \in BOOLEAN : RunnerRollbackStep(e, ok)
    \/ \E e \in ExpIds : FinalCommit(e)
    \/ \E e \in ExpIds : Cancel(e)

SpecCancel == Init /\ [][NextCancel]_vars

\* ------------------------------------------------------------------------
\* SpecHC: one HealthCheckLoop, its owner starting and stopping it
\* ------------------------------------------------------------------------
\* the constructor arguments: number of probes, failure_threshold, and whether
\* an on_failure callback is supplied
LoopConfs ==
    [probes : 0..MaxProbes, failure_threshold : 1..MaxThreshold,
     on_failure : BOOLEAN]

InitHC ==
    /\ InitManager
    /\ InitSystem
    /\ InitContext
    /\ hcConf \in LoopConfs
    /\ hc = NewLoop
    /\ hcRb = IdleCall
    /\ cycleLog = <<>>
    /\ triggers = 0

\* _run returns: the task is done
LoopExit(h) == [h EXCEPT !.task = "done", !.at = "none", !.tasks = @ - 1]

\* _run at `while not self._stopped.is_set()`, up to the next await: the first
\* probe's safe_execute, or with no probes the wait for the interval
LoopTop(h) ==
    IF h.stopped
    THEN LoopExit(h)
    ELSE IF hcConf.probes = 0
         THEN [h EXCEPT !.consecutive_failures = 0, !.at = "wait",
                        !.sweeps = @ + 1]
         ELSE [h EXCEPT !.at = "probe", !.probe = 1, !.all_passed = TRUE,
                        !.sweeps = @ + 1]

\* the history: a sweep with no probes is a passing cycle
LogTop(log, h) ==
    IF ~h.stopped /\ hcConf.probes = 0 THEN Append(log, "pass") ELSE log

\* the loop may go round again (bound on the sweeps started)
MaySweep(h) == h.stopped \/ h.sweeps < MaxCycles

\* _run after _check_probes returned all_passed: the counter
CountedNoReset(h, all_passed) ==
    IF all_passed THEN h.consecutive_failures ELSE h.consecutive_failures + 1
Counted(h, all_passed) ==
    IF all_passed THEN 0 ELSE h.consecutive_failures + 1

\* _run: the threshold test of the failing branch
ThresholdReached(h, all_passed) ==
    /\ ~all_passed
    /\ Counted(h, all_passed) >= hcConf.failure_threshold

\* _run after `await self.on_failure()` returned (ok) or raised (~ok)
AfterOnFailure(h, ok) ==
    IF ok
    THEN LoopExit([h EXCEPT !.stopped = TRUE])
    ELSE LoopTop([h EXCEPT !.consecutive_failures = @ + 1])

\* HealthCheckLoop.start: no-op with a task, else clear the signal and create
\* the task
startAgain(h) ==
    [h EXCEPT !.stopped = FALSE, !.task = "active", !.at = "start",
              !.tasks = @ + 1, !.starts = @ + 1]
start(h) ==
    IF h.task # "none"
    THEN h
    ELSE [h EXCEPT !.stopped = FALSE, !.task = "active", !.at = "start",
                   !.tasks = @ + 1, !.starts = @ + 1]

\* HealthCheckLoop.stop up to its await of the task: no-op without a task
stop(h) ==
    IF h.task = "none"
    THEN h
    ELSE [h EXCEPT !.stopped = TRUE, !.stopping = TRUE]

\* HealthCheckLoop.stop after its await: the task, finished or cancelled at
\* the await it was in, is forgotten
stopped_task(h) ==
    [h EXCEPT !.task = "none", !.at = "none", !.stopping = FALSE,
              !.tasks = IF h.task = "active" THEN @ - 1 ELSE @]

\* the awaits at which a task that outlives stop()'s timeout is cancelled
Cancellable == {"probe", "on_failure", "rollback"}

\* HealthCheckLoop.start called by the owner of the loop
HcStart ==
    /\ hc.task # "none" \/ hc.starts < MaxStarts
    /\ hc' = start(hc)
    /\ UNCHANGED <<rmVars, sysVars, hcConf, hcRb, cycleLog, triggers>>
    /\ UNCHANGED ctxVars

\* the task created by start() runs _run up to its first await
HcTaskRun ==
    /\ hc.task = "active"
    /\ hc.at = "start"
    /\ MaySweep(hc)
    /\ hc' = LoopTop(hc)
    /\ cycleLog' = LogTop(cycleLog, hc)
    /\ UNCHANGED <<rmVars, sysVars, hcConf, hcRb, triggers>>
    /\ UNCHANGED ctxVars

\* the awaited probe.safe_execute() returns its result: _check_probes appends
\* it and awaits the next probe, or returns to _run, which counts the sweep and
\* waits, or calls on_failure, or calls rollback_manager.rollback
HcProbe(passed) ==
    LET res == Append(hc.results, [probe |-> hc.probe, passed |-> passed])
        all_passed == hc.all_passed /\ passed
        h == [hc EXCEPT !.results = res, !.all_passed = all_passed,
                        !.consecutive_failures = Counted(hc, all_passed)]
        frame == RollbackEnter(stacks, LoopId)
    IN  /\ hc.task = "active"
        /\ hc.at = "probe"
        /\ IF hc.probe < hcConf.probes
           THEN /\ hc' = [hc EXCEPT !.results = res, !.all_passed = all_passed,
                                    !.probe = hc.probe + 1]
                /\ UNCHANGED <<rmVars, hcRb, cycleLog, triggers>>
           ELSE /\ cycleLog' = Append(cycleLog,
                                      IF all_passed THEN "pass" ELSE "fail")
                /\ IF ~ThresholdReached(hc, all_passed)
                   THEN /\ hc' = [h EXCEPT !.at = "wait"]
                        /\ UNCHANGED <<rmVars, hcRb, triggers>>
                   ELSE /\ triggers' = triggers + 1
                        /\ IF hcConf.on_failure
                           THEN /\ hc' = [h EXCEPT !.at = "on_failure"]
                                /\ UNCHANGED <<rmVars, hcRb>>
                           ELSE /\ stacks' = RollbackRemaining(stacks, LoopId)
                                /\ execLog' = LogEnter(execLog, frame)
                                /\ pushedSince' = pushedSince \ {LoopId}
                                /\ hcRb' = IF frame.pc = "done"
                                           THEN IdleCall ELSE frame
                                /\ hc' = IF frame.pc = "done"
                                         THEN LoopExit([h EXCEPT !.stopped = TRUE])
                                         ELSE [h EXCEPT !.at = "rollback"]
                                /\ UNCHANGED <<calls, allCall, nextFn>>
        /\ UNCHANGED <<sysVars, hcConf>>
        /\ UNCHANGED ctxVars

\* the awaited on_failure() returns or raises
HcOnFailureReturn(ok) ==
    /\ hc.task = "active"
    /\ hc.at = "on_failure"
    /\ ok \/ MaySweep(hc)
    /\ hc' = AfterOnFailure(hc, ok)
    /\ cycleLog' = IF ok THEN cycleLog
                   ELSE LogTop(cycleLog, hc)
    /\ UNCHANGED <<rmVars, sysVars, hcConf, hcRb, triggers>>
    /\ UNCHANGED ctxVars

\* the compensate awaited by the loop's rollback() returns or raises; after
\* the last one rollback() returns and _run sets the stop signal and returns
HcRollbackStep(ok) ==
    LET frame == RollbackResume(hcRb, ok) IN
    /\ hc.task = "active"
    /\ hc.at = "rollback"
    /\ execLog' = LogResume(execLog, hcRb, ok)
    /\ hcRb' = IF frame.pc = "done" THEN IdleCall ELSE frame
    /\ hc' = IF frame.pc = "done"
             THEN LoopExit([hc EXCEPT !.stopped = TRUE])
             ELSE hc
    /\ UNCHANGED <<stacks, calls, allCall, nextFn, pushedSince, sysVars, hcConf,
                   cycleLog, triggers>>
    /\ UNCHANGED ctxVars

\* wait_for(self._stopped.wait(), timeout=interval) returns: stopped
HcWaitStopped ==
    /\ hc.task = "active"
    /\ hc.at = "wait"
    /\ hc.stopped
    /\ hc' = LoopExit(hc)
    /\ UNCHANGED <<rmVars, sysVars, hcConf, hcRb, cycleLog, triggers>>
    /\ UNCHANGED ctxVars

\* wait_for(self._stopped.wait(), timeout=interval) times out: next sweep
HcWaitTimeout ==
    /\ hc.task = "active"
    /\ hc.at = "wait"
    /\ ~hc.stopped
    /\ MaySweep(hc)
    /\ hc' = LoopTop(hc)
    /\ cycleLog' = LogTop(cycleLog, hc)
    /\ UNCHANGED <<rmVars, sysVars, hcConf, hcRb, triggers>>
    /\ UNCHANGED ctxVars

\* HealthCheckLoop.stop, up to its await of the task
HcStopCall ==
    /\ ~hc.stopping
    /\ hc' = stop(hc)
    /\ UNCHANGED <<rmVars, sysVars, hcConf, hcRb, cycleLog, triggers>>
    /\ UNCHANGED ctxVars

\* stop(): the awaited task is done
HcStopReturn ==
    /\ hc.stopping
    /\ hc.task = "done"
    /\ hc' = stopped_task(hc)
    /\ UNCHANGED <<rmVars, sysVars, hcConf, hcRb, cycleLog, triggers>>
    /\ UNCHANGED ctxVars

\* stop(): the task is not done within interval + 2 seconds and is cancelled
\* at the await it is in; _run returns on CancelledError, a rollback() in
\* progress is abandoned
HcStopTimeout ==
    /\ hc.stopping
    /\ hc.task = "active"
    /\ hc.at \in Cancellable
    /\ hc' = stopped_task(hc)
    /\ hcRb' = IdleCall
    /\ UNCHANGED <<rmVars, sysVars, hcConf, cycleLog, triggers>>
    /\ UNCHANGED ctxVars

\* the experiment the loop watches registers a compensate
HcPush ==
    /\ hc.task = "active"
    /\ nextFn < MaxLoopPush
    /\ Push(LoopId, "pod_delete")

NextHC ==
    \/ HcStart
    \/ HcTaskRun
    \/ \E passed \in BOOLEAN : HcProbe(passed)
    \/ \E ok \in BOOLEAN : HcOnFailureReturn(ok)
    \/ \E ok \in BOOLEAN : HcRollbackStep(ok)
    \/ HcWaitStopped
    \/ HcWaitTimeout
    \/ HcStopCall
    \/ HcStopReturn
    \/ HcStopTimeout
    \/ HcPush

SpecHC == InitHC /\ [][NextHC]_vars

\* the timer of stop()'s wait_for fires, and the event loop runs a task that
\* is ready: the task just created, and the task whose wait was ended by the
\* stop signal
SpecHCLive ==
    /\ SpecHC
    /\ WF_vars(HcStopReturn)
    /\ WF_vars(HcStopTimeout)
    /\ WF_vars(HcTaskRun)
    /\ WF_vars(HcWaitStopped)

\* ------------------------------------------------------------------------
\* SpecHCRaise: the same loop with probes whose safe_execute may raise
\* ------------------------------------------------------------------------
\* the awaited probe.safe_execute() raises an Exception: _check_probes and the
\* try body are left, `except Exception` adds one to the counter, and the while
\* loop goes round with no threshold test and no wait
HcProbeRaises ==
    /\ hc.task = "active"
    /\ hc.at = "probe"
    /\ MaySweep(hc)
    /\ hc' = LoopTop([hc EXCEPT !.consecutive_failures = @ + 1])
    /\ cycleLog' = Append(cycleLog, "raise")
    /\ UNCHANGED <<rmVars, sysVars, hcConf, hcRb, triggers>>
    /\ UNCHANGED ctxVars

NextHCRaise ==
    \/ HcStart
    \/ HcTaskRun
    \/ \E passed \in BOOLEAN : HcProbe(passed)
    \/ HcProbeRaises
    \/ \E ok \in BOOLEAN : HcOnFailureReturn(ok)
    \/ \E ok \in BOOLEAN : HcRollbackStep(ok)
    \/ HcWaitStopped
    \/ HcWaitTimeout
    \/ HcStopCall
    \/ HcStopReturn
    \/ HcStopTimeout
    \/ HcPush

SpecHCRaise == InitHC /\ [][NextHCRaise]_vars

\* ------------------------------------------------------------------------
\* SpecCtx: an ExperimentContext used with probes (safety/guardrails.py)
\* ------------------------------------------------------------------------
\* the loops an ExperimentContext builds are given no on_failure
InitCtx ==
    /\ InitManager
    /\ InitSystem
    /\ InitContext
    /\ hcConf \in {c \in LoopConfs : ~c.on_failure}
    /\ hc = NewLoop
    /\ hcRb = IdleCall
    /\ cycleLog = <<>>
    /\ triggers = 0

\* __aexit__: `if self._health_loop is not None`
ExitAwaitsStopNever(c) == FALSE
ExitAwaitsStop(c) == c.health_loop

\* __aexit__ after the loop is dealt with: rollback(id) if the body raised,
\* up to its first await, else (or with nothing to roll back) return
AfterStop(c) ==
    LET frame == IF c.exc THEN RollbackEnter(stacks, LoopId) ELSE IdleCall
    IN  /\ ctxRb' = IF frame.pc = "await" THEN frame ELSE IdleCall
        /\ ctx' = [c EXCEPT !.pc = IF frame.pc = "await" THEN "rollback"
                                   ELSE "left"]
        /\ stacks' = IF c.exc THEN RollbackRemaining(stacks, LoopId) ELSE stacks
        /\ execLog' = LogEnter(execLog, frame)
        /\ pushedSince' = IF c.exc THEN pushedSince \ {LoopId} ELSE pushedSince
        /\ UNCHANGED <<calls, allCall, nextFn>>

\* ExperimentContext.__aenter__: the continuous probes, if any, get a
\* HealthCheckLoop that is started
CtxEnter ==
    /\ ctx.pc = "new"
    /\ ctx' = [ctx EXCEPT !.pc = "body", !.health_loop = hcConf.probes > 0]
    /\ hc' = IF hcConf.probes > 0 THEN start(hc) ELSE hc
    /\ UNCHANGED <<rmVars, sysVars, hcConf, hcRb, cycleLog, triggers, ctxRb>>

\* ExperimentContext.start_health_checks called in the body
CtxStartHealthChecks ==
    /\ ctx.pc = "body"
    /\ ctx' = [ctx EXCEPT !.health_loop = TRUE]
    /\ hc' = IF ctx.health_loop THEN hc ELSE start(hc)
    /\ UNCHANGED <<rmVars, sysVars, hcConf, hcRb, cycleLog, triggers, ctxRb>>

\* the body registers a compensate
CtxPush ==
    /\ ctx.pc = "body"
    /\ nextFn < MaxLoopPush
    /\ Push(LoopId, "pod_delete")

\* the body ends, returning or raising (exc): __aexit__ up to its first await
CtxExit(exc) ==
    /\ ctx.pc = "body"
    /\ IF ExitAwaitsStop(ctx)
       THEN /\ hc' = stop(hc)
            /\ ctx' = [ctx EXCEPT !.pc = "stop", !.exc = exc]
            /\ UNCHANGED <<rmVars, ctxRb>>
       ELSE /\ AfterStop([ctx EXCEPT !.exc = exc])
            /\ UNCHANGED hc
    /\ UNCHANGED <<sysVars, hcConf, hcRb, cycleLog, triggers>>

\* __aexit__: the awaited stop() returns, the task being done
CtxStopReturn ==
    /\ ctx.pc = "stop"
    /\ hc.task = "done"
    /\ hc' = stopped_task(hc)
    /\ AfterStop(ctx)
    /\ UNCHANGED <<sysVars, hcConf, hcRb, cycleLog, triggers>>

\* __aexit__: the awaited stop() times out and cancels the task
CtxStopTimeout ==
    /\ ctx.pc = "stop"
    /\ hc.task = "active"
    /\ hc.at \in Cancellable
    /\ hc' = stopped_task(hc)
    /\ hcRb' = IdleCall
    /\ AfterStop(ctx)
    /\ UNCHANGED <<sysVars, hcConf, cycleLog, triggers>>

\* __aexit__: the compensate awaited by its rollback returns or raises
CtxRollbackStep(ok) ==
    LET frame == RollbackResume(ctxRb, ok) IN
    /\ ctx.pc = "rollback"
    /\ execLog' = LogResume(execLog, ctxRb, ok)
    /\ ctxRb' = IF frame.pc = "done" THEN IdleCall ELSE frame
    /\ ctx' = IF frame.pc = "done" THEN [ctx EXCEPT !.pc = "left"] ELSE ctx
    /\ UNCHANGED <<stacks, calls, allCall, nextFn, pushedSince, sysVars, hcVars>>

NextCtx ==
    \/ CtxEnter
    \/ CtxStartHealthChecks
    \/ CtxPush
    \/ \E exc \in BOOLEAN : CtxExit(exc)
    \/ CtxStopReturn
    \/ CtxStopTimeout
    \/ \E ok \in BOOLEAN : CtxRollbackStep(ok)
    \/ HcTaskRun
    \/ \E passed \in BOOLEAN : HcProbe(passed)
    \/ \E ok \in BOOLEAN : HcRollbackStep(ok)
    \/ HcWaitStopped
    \/ HcWaitTimeout

SpecCtx == InitCtx /\ [][NextCtx]_vars

\* ------------------------------------------------------------------------
\* SpecFn: the guard functions and pod_delete called on their own
\* (safety/guardrails.py, engines/k8s_engine.py)
\* ------------------------------------------------------------------------
\* validate_blast_radius; max_ratio counts tenths, so that
\* affected_count / total_count > max_ratio is compared exactly
validate_blast_radiusStrict(affected_count, total_count, max_ratio) ==
    IF total_count = 0
    THEN TRUE
    ELSE ~(affected_count * RatioDen >= max_ratio * total_count)
validate_blast_radius(affected_count, total_count, max_ratio) ==
    IF total_count = 0
    THEN TRUE
    ELSE ~(affected_count * RatioDen > max_ratio * total_count)

\* n deletions, as steps of pod_delete
Deletions(n) == [j \in 1..n |-> "delete"]

\* K8sEngine.pod_delete with the latch as it is, `matched` pods listed by the
\* selector, `total` pods in the namespace, and the API raising at the
\* listing (api = -1), at the api-th deletion, or not at all (api = 0): the
\* error raised, the number of pods deleted, whether a compensate is
\* returned, whether the result says dry_run, and the steps taken; `valid`
\* is what validate_blast_radius returns
PodDeleteSteps(valid, latch, matched, dry_run, api) ==
    LET r == [error |-> "none", deleted |-> 0, compensate |-> FALSE,
              dry_run |-> FALSE, steps |-> <<"check_stop">>]
        listed == <<"check_stop", "list", "check_blast">>
    IN  IF latch
        THEN [r EXCEPT !.error = "emergency_stop"]
        ELSE IF api = -1
        THEN [r EXCEPT !.error = "api_error", !.steps = <<"check_stop", "list">>]
        ELSE IF ~valid
        THEN [r EXCEPT !.error = "blast_radius", !.steps = listed]
        ELSE IF dry_run
        THEN [r EXCEPT !.dry_run = TRUE, !.steps = listed \o <<"dry_return">>]
        ELSE IF api \in 1..matched
        THEN [r EXCEPT !.error = "api_error", !.deleted = api - 1,
                       !.steps = listed \o Deletions(api - 1)]
        ELSE [r EXCEPT !.deleted = matched, !.compensate = TRUE,
                       !.steps = listed \o Deletions(matched)]

pod_deleteUnchecked(latch, matched, total, max_blast_radius, dry_run, api) ==
    PodDeleteSteps(TRUE, latch, matched, dry_run, api)
pod_delete(latch, matched, total, max_blast_radius, dry_run, api) ==
    PodDeleteSteps(validate_blast_radius(matched, total, max_blast_radius),
                   latch, matched, dry_run, api)

\* validate_blast_radius is called
ValidateBlastRadius(affected_count, total_count, max_ratio) ==
    /\ fnCall = NoCall
    /\ fnCall' = [fn |-> "validate_blast_radius",
                  affected_count |-> affected_count,
                  total_count |-> total_count,
                  max_ratio |-> max_ratio,
                  result |-> validate_blast_radius(affected_count, total_count,
                                                   max_ratio)]
    /\ UNCHANGED <<rmVars, runVars, apiVars, stopVars, stoppedMidRun, db,
                   snapshots, target, actuated, dry, hcVars, ctxVars>>

\* k8s_engine.pod_delete is called
PodDelete(matched, total, max_blast_radius, dry_run, api) ==
    /\ fnCall = NoCall
    /\ fnCall' = [fn |-> "pod_delete", latch |-> estop, matched |-> matched,
                  total |-> total, max_blast_radius |-> max_blast_radius,
                  dry_run |-> dry_run, api |-> api,
                  result |-> pod_delete(estop, matched, total,
                                        max_blast_radius, dry_run, api)]
    /\ UNCHANGED <<rmVars, runVars, apiVars, stopVars, stoppedMidRun, db,
                   snapshots, target, actuated, dry, hcVars, ctxVars>>

\* strings of at most MaxName characters
Strings(chars) == UNION {[1..n -> chars] : n \in 0..MaxName}

\* a target_namespace of type str | None: <<>> is None, <<s>> the string s
None == <<>>

\* the namespaces given: None, or a string (the empty one included)
Namespaces == {None} \cup {<<s>> : s \in Strings({"p", "s"})}

\* Python's truth value of a str | None
Truthy(ns) == ns # None /\ ns[1] # <<>>

\* the glob patterns given
Patterns == Strings({"p", "*", "?"})

RECURSIVE fnmatch(_, _)
\* fnmatch.fnmatch(name, pat) for patterns made of characters, * and ?
fnmatch(name, pat) ==
    IF pat = <<>>
    THEN name = <<>>
    ELSE IF Head(pat) = "*"
    THEN \/ fnmatch(name, Tail(pat))
         \/ name # <<>> /\ fnmatch(Tail(name), pat)
    ELSE /\ name # <<>>
         /\ Head(pat) = "?" \/ Head(pat) = Head(name)
         /\ fnmatch(Tail(name), Tail(pat))

\* require_confirmation(pattern)(func) called with the config passed by
\* keyword, positionally or not at all: kwargs.get("config") sees only the
\* keyword; a None or empty target_namespace is falsy
require_confirmation(pattern, passing, target_namespace, confirmation) ==
    LET seen == passing = "keyword"
        refuses == /\ seen
                   /\ Truthy(target_namespace)
                   /\ fnmatch(target_namespace[1], pattern)
                   /\ ~confirmation
    IN  [raised |-> refuses, ran |-> ~refuses,
         returned |-> IF refuses THEN "none" ELSE "executed"]

\* an operation wrapped with require_confirmation(pattern) is called
RequireConfirmation(pattern, passing, target_namespace, confirmation) ==
    /\ fnCall = NoCall
    /\ fnCall' = [fn |-> "require_confirmation", pattern |-> pattern,
                  passing |-> passing, target_namespace |-> target_namespace,
                  confirmation |-> confirmation,
                  result |-> require_confirmation(pattern, passing,
                                                  target_namespace, confirmation)]
    /\ UNCHANGED <<rmVars, runVars, apiVars, stopVars, stoppedMidRun, db,
                   snapshots, target, actuated, dry, hcVars, ctxVars>>

\* what a query of the infrastructure does: it raises, or returns some items
Raises == -1
QueryOutcomes == {Raises} \cup (0..MaxItems)

\* the items a query returned
Items(n) == [j \in 1..n |-> j]

\* capture_k8s_snapshot: the try block lists the pods, then the deployments,
\* then the services, filling pods_data, deployments_data and services_data
\* as it goes; the except clause only logs. Then the snapshot is stored in
\* _snapshots and _persist_snapshot, which catches what the sink raises, is
\* awaited.
capture_k8s_snapshot(pods, deployments, services, persist_ok) ==
    LET got_pods == pods # Raises
        got_deployments == got_pods /\ deployments # Raises
        got_services == got_deployments /\ services # Raises
        snapshot ==
            [type |-> "k8s", captured_at |-> TRUE,
             pods |-> IF got_pods THEN Items(pods) ELSE <<>>,
             deployments |-> IF got_deployments THEN Items(deployments) ELSE <<>>,
             services |-> IF got_services THEN Items(services) ELSE <<>>]
    IN  [raised |-> FALSE, returned |-> snapshot, stored |-> snapshot,
         persisted |-> persist_ok]

\* capture_aws_snapshot: state = {} unless describe_instances (or
\* describe_db_clusters) returned the resource
capture_aws_snapshot(described, persist_ok) ==
    LET snapshot ==
            [type |-> "aws", captured_at |-> TRUE,
             state |-> IF described > 0 THEN <<"state">> ELSE <<>>]
    IN  [raised |-> FALSE, returned |-> snapshot, stored |-> snapshot,
         persisted |-> persist_ok]

\* snapshot_manager.capture_k8s_snapshot is called
CaptureK8sSnapshot(pods, deployments, services, persist_ok) ==
    /\ fnCall = NoCall
    /\ fnCall' = [fn |-> "capture_k8s_snapshot", pods |-> pods,
                  deployments |-> deployments, services |-> services,
                  persist_ok |-> persist_ok,
                  result |-> capture_k8s_snapshot(pods, deployments, services,
                                                  persist_ok)]
    /\ UNCHANGED <<rmVars, runVars, apiVars, stopVars, stoppedMidRun, db,
                   snapshots, target, actuated, dry, hcVars, ctxVars>>

\* snapshot_manager.capture_aws_snapshot is called
CaptureAwsSnapshot(described, persist_ok) ==
    /\ fnCall = NoCall
    /\ fnCall' = [fn |-> "capture_aws_snapshot", described |-> described,
                  persist_ok |-> persist_ok,
                  result |-> capture_aws_snapshot(described, persist_ok)]
    /\ UNCHANGED <<rmVars, runVars, apiVars, stopVars, stoppedMidRun, db,
                   snapshots, target, actuated, dry, hcVars, ctxVars>>

\* the pod names in play
PodNames == {"a", "b"}

\* no snapshot stored for the id
NoSnapshot == [type |-> "none"]

\* the snapshots stored: none, or a k8s one with the pods it captured
StoredSnapshots ==
    {NoSnapshot} \cup
        {[type |-> "k8s", captured_at |-> TRUE, pods |-> pods] :
            pods \in UNION {[1..n -> PodNames] : n \in 0..MaxItems}}

\* what list_namespaced_pod does at restore time: it raises, or returns the
\* pods with these names
PodListings ==
    {[raises |-> TRUE, names |-> {}]} \cup
        {[raises |-> FALSE, names |-> names] : names \in SUBSET PodNames}

RECURSIVE DictOfNames(_)
\* _restore_k8s: the keys of {p["name"]: p for p in pods}, a name once, in
\* the order of first insertion
DictOfNamesAll(pods) == pods
DictOfNames(pods) ==
    IF pods = <<>>
    THEN <<>>
    ELSE LET before == DictOfNames(SubSeq(pods, 1, Len(pods) - 1))
             name == pods[Len(pods)]
         IN  IF name \in Range(before) THEN before ELSE Append(before, name)

\* _restore_k8s: nothing to do without snapshot pods; else the pods of the
\* namespace are listed (current: a PodListings member) and each snapshot
\* name that is not among them gives a pod_missing action
restore_k8s(snapshot, current) ==
    LET snapshot_pods == DictOfNames(snapshot.pods)
        missing == SelectSeq(snapshot_pods,
                             LAMBDA name : name \notin current.names)
    IN  IF snapshot_pods = <<>>
        THEN <<>>
        ELSE IF current.raises
        THEN <<[action |-> "error", name |-> "none", status |-> "none"]>>
        ELSE [j \in 1..Len(missing) |->
                [action |-> "pod_missing", name |-> missing[j],
                 status |-> "detected"]]

\* restore_from_snapshot: None without a snapshot, else the actions; the
\* snapshot is read only
restore_from_snapshot(snapshot, current) ==
    IF snapshot = NoSnapshot
    THEN [none |-> TRUE, actions |-> <<>>, snapshot |-> snapshot]
    ELSE [none |-> FALSE, actions |-> restore_k8s(snapshot, current),
          snapshot |-> snapshot]

\* snapshot_manager.restore_from_snapshot is called
RestoreFromSnapshot(snapshot, current) ==
    /\ fnCall = NoCall
    /\ fnCall' = [fn |-> "restore_from_snapshot", snapshot |-> snapshot,
                  current |-> current,
                  result |-> restore_from_snapshot(snapshot, current)]
    /\ UNCHANGED <<rmVars, runVars, apiVars, stopVars, stoppedMidRun, db,
                   snapshots, target, actuated, dry, hcVars, ctxVars>>

\* _run_pod_delete(config): k8s_engine.pod_delete(config.target_namespace or
\* "default", label_selector, config=config, dry_run=config.safety.dry_run);
\* pod_delete is not wrapped by require_confirmation, and neither
\* safety.namespace_pattern nor safety.require_confirmation is read on the way
run_pod_delete(namespace, pattern, confirmation, latch, matched, total, ratio, dry_run, api) ==
    pod_delete(latch, matched, total, ratio, dry_run, api)

\* create_experiment calls chaos_fn(config) for a pod_delete config, the
\* latch as it is, the selector matching `matched` of MaxPods pods, any
\* ratio allowed, no dry run, and the cluster API answering every call (0)
RunPodDelete(target_namespace, namespace_pattern, confirmation, matched) ==
    /\ fnCall = NoCall
    /\ fnCall' = [fn |-> "run_pod_delete",
                  target_namespace |-> target_namespace,
                  namespace_pattern |-> namespace_pattern,
                  confirmation |-> confirmation, latch |-> estop,
                  matched |-> matched,
                  result |-> run_pod_delete(target_namespace, namespace_pattern,
                                            confirmation, estop, matched,
                                            MaxPods, RatioDen, FALSE, 0)]
    /\ UNCHANGED <<rmVars, runVars, apiVars, stopVars, stoppedMidRun, db,
                   snapshots, target, actuated, dry, hcVars, ctxVars>>

\* SafetyConfig (models/experiment.py): Field(ge=..., le=...) of the four
\* numeric fields; max_blast_radius 0.0..1.0 is 0..RatioDen tenths
TimeoutGe == 1
TimeoutLe == 120
IntervalGe == 1
IntervalLe == 60
ThresholdGe == 1
ThresholdLe == 10

\* a numeric Field with ge and le accepts v iff ge <= v <= le
Field(v, ge, le) == ge <= v /\ v <= le

\* the bodies submitted: each field at and just outside its two limits
Submitted ==
    [timeout_seconds : {TimeoutGe - 1, TimeoutGe, TimeoutLe, TimeoutLe + 1},
     max_blast_radius : {-1, 0, RatioDen, RatioDen + 1},
     health_check_interval :
        {IntervalGe - 1, IntervalGe, IntervalLe, IntervalLe + 1},
     health_check_failure_threshold :
        {ThresholdGe - 1, ThresholdGe, ThresholdLe, ThresholdLe + 1}]

\* SafetyConfig with its upper limits left out
SafetyConfigNoLe(s) ==
    /\ TimeoutGe <= s.timeout_seconds
    /\ 0 <= s.max_blast_radius
    /\ IntervalGe <= s.health_check_interval
    /\ ThresholdGe <= s.health_check_failure_threshold

\* SafetyConfig(**s) validates: TRUE iff no ValidationError is raised
SafetyConfig(s) ==
    /\ Field(s.timeout_seconds, TimeoutGe, TimeoutLe)
    /\ Field(s.max_blast_radius, 0, RatioDen)
    /\ Field(s.health_check_interval, IntervalGe, IntervalLe)
    /\ Field(s.health_check_failure_threshold, ThresholdGe, ThresholdLe)

\* POST /experiments with a body whose safety part is s: the body is
\* validated as the handler's `config: ExperimentConfig` parameter, and
\* create_experiment runs only with a config that validated
PostExperiments(s) ==
    /\ fnCall = NoCall
    /\ fnCall' = [fn |-> "post_experiments", safety |-> s,
                  result |-> IF SafetyConfig(s)
                             THEN [status |-> "handled", configs |-> {s}]
                             ELSE [status |-> "validation_error",
                                   configs |-> {}]]
    /\ UNCHANGED <<rmVars, runVars, apiVars, stopVars, stoppedMidRun, db,
                   snapshots, target, actuated, dry, hcVars, ctxVars>>

\* the caller has taken the result of the call
FnReturn ==
    /\ fnCall # NoCall
    /\ fnCall' = NoCall
    /\ UNCHANGED <<rmVars, runVars, apiVars, stopVars, stoppedMidRun, db,
                   snapshots, target, actuated, dry, hcVars, ctxVars>>

NextFn ==
    \/ \E pattern \in Patterns, passing \in {"none", "keyword", "positional"},
          ns \in Namespaces, confirmation \in BOOLEAN :
            RequireConfirmation(pattern, passing, ns, confirmation)
    \/ \E a \in 0..MaxPods, t \in 0..MaxPods, r \in 0..RatioDen :
            ValidateBlastRadius(a, t, r)
    \/ \E m \in 0..MaxPods, t \in 0..MaxPods, r \in 0..RatioDen,
          d \in BOOLEAN, api \in -1..MaxPods :
            PodDelete(m, t, r, d, api)
    \/ \E pods \in QueryOutcomes, deployments \in QueryOutcomes,
          services \in QueryOutcomes, persist_ok \in BOOLEAN :
            CaptureK8sSnapshot(pods, deployments, services, persist_ok)
    \/ \E described \in {Raises, 0, 1}, persist_ok \in BOOLEAN :
            CaptureAwsSnapshot(described, persist_ok)
    \/ \E snapshot \in StoredSnapshots, current \in PodListings :
            RestoreFromSnapshot(snapshot, current)
    \/ \E s \in Submitted : PostExperiments(s)
    \/ \E ns \in Namespaces, pattern \in Patterns, confirmation \in BOOLEAN,
          m \in 1..MaxPods :
            RunPodDelete(ns, pattern, confirmation, m)
    \/ FnReturn
    \/ Trigger
    \/ Reset

SpecFn == Init /\ [][NextFn]_vars

\* ========================================================================
\* Properties of the RollbackManager (checked under SpecRM)
\* ========================================================================
LiveFrames == {t \in Tasks : calls[t].pc \in {"await", "done"}}

FnsOf(stack) == {stack[j].rollback_fn : j \in 1..Len(stack)}

\* the invocation history restricted to the compensates of one detached stack
LogOf(stack) == SelectSeq(execLog, LAMBDA e : e.fn \in FnsOf(stack))

Starts(fn) == Len(SelectSeq(execLog, LAMBDA e : e.fn = fn /\ e.ev = "start"))

OnStacks(fn) == \E k \in 1..Len(stacks) : fn \in FnsOf(stacks[k].list)

\* C3: pushes f1..fn on one id followed by rollback(id): the detached list is
\* in push order, the compensates are invoked in the order fn, ..., f1, each
\* one only after the previous one has finished, and the k-th result
\* describes the (n+1-k)-th push.
C3_LifoOrder ==
    \A t \in LiveFrames :
        LET st == calls[t].stack
            n == Len(st)
            r == calls[t].results
            L == LogOf(st)
        IN  /\ \A a, b \in 1..n : a < b => st[a].rollback_fn < st[b].rollback_fn
            /\ Len(r) <= n
            /\ Len(L) = IF calls[t].pc = "done" THEN 2 * n ELSE 2 * Len(r) + 1
            /\ \A p \in 1..Len(L) :
                  /\ L[p].fn = st[n - ((p - 1) \div 2)].rollback_fn
                  /\ (p % 2 = 1) <=> (L[p].ev = "start")
            /\ \A k \in 1..Len(r) :
                  /\ r[k].description = st[n + 1 - k].description
                  /\ r[k].status = L[2 * k].ev
                  /\ r[k].status = "success"
                        => r[k].result = RetVal(st[n + 1 - k].rollback_fn)
                  /\ r[k].status = "failed"
                        => r[k].error = ErrText(st[n + 1 - k].rollback_fn)

C3_Witness ==
    \E t \in Tasks :
        /\ calls[t].pc = "done"
        /\ Len(calls[t].stack) = 3
        /\ calls[t].stack[1].description # calls[t].stack[3].description

\* C4: rollback(id) attempts every entry of the detached stack exactly once
\* even when compensates raise: a raise gives a "failed" result with the
\* error text, a return gives "success" with the value, there is one result
\* per entry, and the call goes on to return normally.
C4_FrameComplete(t) ==
    LET st == calls[t].stack
        r == calls[t].results
    IN  calls[t].pc = "done" =>
          /\ Len(r) = Len(st)
          /\ \A j \in 1..Len(st) :
                LET fn == st[j].rollback_fn
                    mine == SelectSeq(execLog, LAMBDA e : e.fn = fn)
                    res == r[Len(st) + 1 - j]
                IN  /\ Len(mine) = 2
                    /\ mine[1].ev = "start"
                    /\ mine[2].ev = "failed" =>
                          res = [description |-> st[j].description,
                                 status |-> "failed", error |-> ErrText(fn)]
                    /\ mine[2].ev = "success" =>
                          res = [description |-> st[j].description,
                                 status |-> "success", result |-> RetVal(fn)]
                    /\ mine[2].ev \in {"failed", "success"}

C4_Continues(t) ==
    (calls[t].pc = "await" /\ calls'[t] # calls[t]) =>
        /\ Len(calls'[t].results) = Len(calls[t].results) + 1
        /\ calls'[t].stack = calls[t].stack
        /\ IF Len(calls'[t].results) < Len(calls[t].stack)
           THEN calls'[t].pc = "await"
           ELSE calls'[t].pc = "done"

C4_AllAttempted ==
    /\ [](\A t \in Tasks : C4_FrameComplete(t))
    /\ [][\A t \in Tasks : C4_Continues(t)]_vars

C4_Witness ==
    \E t \in Tasks :
        /\ calls[t].pc = "done"
        /\ Len(calls[t].results) = 3
        /\ calls[t].results[1].status = "success"
        /\ calls[t].results[2].status = "failed"
        /\ calls[t].results[3].status = "success"

\* C5: once rollback(id) has been called and nothing was pushed to id since
\* (and for an id never pushed to), get_stack_size(id) is 0 and id is not in
\* get_active_experiments(); a further rollback(id) then returns [] at once
\* and invokes no compensate.
C5_Empty ==
    \A id \in ExpIds :
        id \notin pushedSince =>
            /\ get_stack_size(stacks, id) = 0
            /\ \A k \in 1..Len(get_active_experiments(stacks)) :
                  get_active_experiments(stacks)[k] # id

C5_Again(t) ==
    (calls[t].pc = "idle" /\ calls'[t].pc # "idle"
        /\ calls'[t].id \notin pushedSince) =>
        /\ calls'[t].pc = "done"
        /\ calls'[t].results = <<>>
        /\ execLog' = execLog

C5_RollbackClears ==
    /\ []C5_Empty
    /\ [][\A t \in Tasks : C5_Again(t)]_vars

C5_Witness ==
    \E t, u \in Tasks :
        /\ calls[t].pc = "done" /\ calls[t].stack # <<>>
        /\ calls[u].pc = "done" /\ calls[u].id = calls[t].id
        /\ calls[u].results = <<>>
        /\ calls[t].id \notin pushedSince
        /\ nextFn = Len(calls[t].stack)

\* C6: under any interleaving of rollback(id) calls and pushes, every pushed
\* compensate is executed at most once and has exactly one owner: it is on
\* the stack, or in the list detached by exactly one rollback call, which
\* executes it; a rollback call detaches the whole stack of its id, so a push
\* made after the detach stays on a fresh stack, out of the call in progress,
\* until the next rollback(id) takes it.
C6_Owner(fn) ==
    LET holders == {t \in LiveFrames : fn \in FnsOf(calls[t].stack)}
    IN  /\ Starts(fn) <= 1
        /\ IF OnStacks(fn)
           THEN holders = {} /\ Starts(fn) = 0
           ELSE \/ Cardinality(holders) = 1
                \/ holders = {} /\ Starts(fn) = 1
        /\ Cardinality({k \in 1..Len(stacks) : fn \in FnsOf(stacks[k].list)}) <= 1

C6_Detach(t) ==
    (calls[t].pc = "idle" /\ calls'[t].pc # "idle") =>
        /\ calls'[t].stack = DictGet(stacks, calls'[t].id)
        /\ ~DictHas(stacks', calls'[t].id)
        /\ \A id \in ExpIds \ {calls'[t].id} :
              DictGet(stacks', id) = DictGet(stacks, id)

C6_NoLossNoDouble ==
    /\ [](\A fn \in 1..nextFn : C6_Owner(fn))
    /\ [][\A t \in Tasks : C6_Detach(t)]_vars

C6_Witness ==
    \E t, u \in Tasks :
        /\ calls[t].pc = "await" /\ calls[t].results = <<>>
        /\ calls[u].pc = "done" /\ calls[u].id = calls[t].id
        /\ calls[u].stack # <<>>
        /\ calls[u].stack[1].rollback_fn > calls[t].stack[1].rollback_fn

\* ========================================================================
\* Properties of the HTTP surface (checked under Spec)
\* ========================================================================
Errors == {"api_error", "blast_radius", "emergency_stop"}

\* C1: a create_experiment call made while the emergency-stop latch is set is
\* refused with 503 and creates no record, captures no snapshot, invokes no
\* actuator and pushes no rollback entry.
C1_Refuse(e) ==
    (estop /\ pc[e] = "idle" /\ pc'[e] # "idle") =>
        /\ pc'[e] = "refused"
        /\ response'[e] = "503"
        /\ rec' = rec /\ db' = db
        /\ snapshots' = snapshots
        /\ actuated' = actuated /\ target' = target
        /\ stacks' = stacks /\ nextFn' = nextFn

C1_RefusedClean ==
    \A e \in ExpIds :
        pc[e] = "refused" =>
            /\ rec[e] = NoRec /\ db[e] = NoRec
            /\ e \notin snapshots
            /\ e \notin actuated /\ target[e] = "intact"
            /\ ~DictHas(stacks, e)

C1_StopBlocksCreate ==
    /\ []C1_RefusedClean
    /\ [][\A e \in ExpIds : C1_Refuse(e)]_vars

C1_Witness ==
    \E e, f \in ExpIds :
        /\ pc[e] = "refused" /\ estop
        /\ pc[f] = "returned" /\ DictHas(stacks, f)

\* C2: when a step of the body (steady state, injection, observe) raises,
\* then by the time create_experiment gives control back the record object
\* has status failed and the error message, that was committed, rollback(id)
\* has run to its end so that the stack of the experiment is empty, and the
\* same error is what the caller gets.
C2_FromBody(e) ==
    (pc[e] \in {"steady", "inject", "observe"} /\ pc'[e] = "fail_commit") =>
        /\ rec'[e].status = "failed"
        /\ rec'[e].error \in Errors

C2_AtReturn(e) ==
    (pc[e] \in {"fail_commit", "rollback"} /\ pc'[e] # pc[e]) =>
        \/ pc'[e] = "rollback" /\ pc[e] = "fail_commit"
        \/ /\ pc'[e] = "raised"
           /\ rec'[e].status = "failed"
           /\ rec'[e].error \in Errors
           /\ response'[e] = rec'[e].error
           /\ db'[e].error = rec'[e].error
           /\ db'[e].status \in {"failed", "rolled_back"}
           /\ runRb'[e].pc = "done" /\ runRb'[e].id = e
           /\ Len(runRb'[e].results) = Len(runRb'[e].stack)
           /\ ~DictHas(stacks', e)

C2_FailurePath ==
    [][\A e \in ExpIds : C2_FromBody(e) /\ C2_AtReturn(e)]_vars

C2_Witness ==
    \E e \in ExpIds :
        /\ pc[e] = "raised"
        /\ rec[e].status = "failed" /\ rec[e].injection_result = "real"
        /\ runRb[e].results # <<>>

\* all requests have ended
Quiescent ==
    \A e \in ExpIds :
        pc[e] \in Terminal \cup {"idle"} /\ apiPc[e] \in ApiAnswered \cup {"idle"}

\* C7: once POST /emergency-stop has returned, and until a reset, GET /health
\* reports emergency_stop = true and every POST /api/chaos/experiments is
\* refused with 503.
C7_Refuse(e) ==
    (stopPosted /\ pc[e] = "idle" /\ pc'[e] # "idle") =>
        pc'[e] = "refused" /\ response'[e] = "503"

C7_PostStopBlocksCreate ==
    /\ [](stopPosted => health_check.emergency_stop)
    /\ [][\A e \in ExpIds : C7_Refuse(e)]_vars

\* C8: after POST /emergency-stop every experiment with a non-empty rollback
\* stack has it drained without a call of the rollback endpoint; so once all
\* requests have ended no stack is left.
C8_StopUnwinds ==
    (stopPosted /\ Quiescent) => \A e \in ExpIds : ~DictHas(stacks, e)

\* C9: when the emergency stop is triggered after the injection of an
\* experiment has finished and before its observe step, the experiment does
\* not complete: the request ends by raising, with the record failed and the
\* stack of the experiment drained.
C9_Ends(e) ==
    (e \in stoppedMidRun /\ pc[e] \notin Terminal /\ pc'[e] \in Terminal) =>
        /\ pc'[e] = "raised"
        /\ rec'[e].status = "failed"
        /\ ~DictHas(stacks', e)

C9_StopBeforeObserve ==
    /\ [](\A e \in stoppedMidRun : rec[e].status # "completed")
    /\ [][\A e \in ExpIds : C9_Ends(e)]_vars

\* ========================================================================
\* Properties of the HealthCheckLoop (checked under SpecHC)
\* ========================================================================
RECURSIVE TrailingFails(_)
TrailingFails(log) ==
    IF log = <<>> \/ log[Len(log)] = "pass"
    THEN 0
    ELSE 1 + TrailingFails(SubSeq(log, 1, Len(log) - 1))

InTrigger(h) == h.at \in {"on_failure", "rollback"}

\* the loop triggers only on finishing a sweep that brings the run of failing
\* cycles to the threshold, and every such sweep triggers
C10_AtThreshold ==
    (triggers' # triggers)
        <=> /\ Len(cycleLog') = Len(cycleLog) + 1
            /\ TrailingFails(cycleLog') >= hcConf.failure_threshold

\* when the trigger is over the stop signal is set and the task is not running
C10_ThenStops ==
    (/\ InTrigger(hc) \/ triggers' # triggers
     /\ ~InTrigger(hc'))
        => hc'.stopped /\ hc'.task # "active"

\* without a failing cycle there is no trigger
C10_NoFailNoTrigger ==
    (\A k \in 1..Len(cycleLog) : cycleLog[k] = "pass") => triggers = 0

\* C10: the HealthCheckLoop triggers exactly when the number of consecutive
\* failing cycles reaches failure_threshold; after triggering it sets its stop
\* signal and runs no further probe cycle; a loop whose cycles all pass (an
\* empty probe list included) never triggers.
C10_TriggersAtThresholdThenStops ==
    /\ []C10_NoFailNoTrigger
    /\ [][C10_AtThreshold]_vars
    /\ [][C10_ThenStops]_vars

\* the cycles so far went fail, pass, fail, pass, ...
Alternating(log) ==
    \A k \in 1..Len(log) : log[k] = (IF k % 2 = 1 THEN "fail" ELSE "pass")

\* a sweep has just ended all-pass
C11_PassResets ==
    (/\ Len(cycleLog') = Len(cycleLog) + 1
     /\ cycleLog'[Len(cycleLog')] = "pass")
        => hc'.consecutive_failures = 0

\* C11: a HealthCheckLoop with failure_threshold >= 2 whose cycles alternate
\* fail, pass, fail, pass, ... never invokes on_failure nor rollback, and
\* every all-pass cycle resets the consecutive-failure counter to 0.
C11_AlternatingNeverTriggers ==
    /\ []((hcConf.failure_threshold >= 2 /\ Alternating(cycleLog))
            => triggers = 0 /\ hc.consecutive_failures <= 1)
    /\ [][C11_PassResets]_vars

C11_Witness ==
    /\ hcConf.failure_threshold = 2
    /\ hcConf.probes > 0
    /\ cycleLog = <<"fail", "pass", "fail">>
    /\ hc.consecutive_failures = 1
    /\ triggers = 0

\* ========================================================================
\* Properties of the ExperimentContext with probes (checked under SpecCtx)
\* ========================================================================
\* control is back with the caller of the context
C12_Left == ctx.pc = "left" /\ ctx.health_loop

\* C12: when an ExperimentContext that started a HealthCheckLoop has been
\* left, the body having returned or raised, the task of the loop is not
\* running, and from then on no probe is executed and nothing is triggered.
C12_LoopStoppedOnExit ==
    /\ [](C12_Left => hc.task = "none" /\ ~hc.stopping /\ hcRb = IdleCall)
    /\ [][C12_Left => /\ hc'.results = hc.results
                      /\ cycleLog' = cycleLog
                      /\ triggers' = triggers
                      /\ execLog' = execLog]_vars

C12_Witness ==
    /\ C12_Left
    /\ ctx.exc
    /\ Len(cycleLog) >= 2
    /\ triggers = 0
    /\ hc.results # <<>>

\* ========================================================================
\* Properties of the HealthCheckLoop's lifecycle (checked under SpecHCLive)
\* ========================================================================
\* at most one polling task exists, and it is the one the loop refers to
C13_OneTask ==
    /\ hc.tasks \in {0, 1}
    /\ hc.tasks = 1 <=> hc.task = "active"

\* stop() on a loop that was never started leaves it as constructed
C13_NeverStarted == hc.starts = 0 => hc = NewLoop

\* when stop() returns the task is finished: is_running is false
C13_StopReturns ==
    (hc.stopping /\ ~hc'.stopping) => hc'.task = "none" /\ hc'.tasks = 0

\* C13: start() on a HealthCheckLoop that has a task creates no second task,
\* so that at most one polling task exists; stop() on a started loop always
\* returns, and then the task of the loop is finished; stop() on a loop never
\* started does nothing.
C13_Lifecycle ==
    /\ [](C13_OneTask /\ C13_NeverStarted)
    /\ [][C13_StopReturns]_vars
    /\ (hc.stopping ~> ~hc.stopping)

C13_Witness ==
    /\ hc.starts = 2
    /\ hc.task = "none" /\ hc.stopped /\ ~hc.stopping
    /\ hc.sweeps >= 2
    /\ triggers = 0

\* ========================================================================
\* Properties of dry runs (checked under Spec)
\* ========================================================================
\* a run submitted with safety.dry_run leaves its target alone, records a
\* dry_run result and has nothing on its stack
C14_RunnerDry ==
    \A e \in ExpIds :
        (config[e] # NoRec /\ config[e].dry_run) =>
            /\ target[e] = "intact"
            /\ get_stack_size(stacks, e) = 0
            /\ rec[e].injection_result \in {"none", "dry_run"}

\* the dry-run endpoint calls the engine with dry_run = true whatever was
\* submitted, so its target stays as it was and its result is a dry_run one
C14_EndpointDry ==
    /\ dry.target = "intact"
    /\ dry.pc # "idle" => dry.config.dry_run
    /\ dry.status = "completed" => dry.injection_result = "dry_run"

\* the dry-run endpoint stores nothing
C14_EndpointStoresNothing ==
    dry' # dry =>
        /\ db' = db /\ rec' = rec
        /\ snapshots' = snapshots
        /\ stacks' = stacks /\ nextFn' = nextFn

\* C14: with safety.dry_run = true the actuator does not mutate the target
\* and returns a dry_run result without compensate, the runner pushes nothing
\* and the stack of the experiment has size 0 after the run; POST
\* /api/chaos/dry-run forces dry_run = true whatever was submitted and
\* persists no record.
C14_DryRun ==
    /\ [](C14_RunnerDry /\ C14_EndpointDry)
    /\ [][C14_EndpointStoresNothing]_vars

C14_Witness ==
    /\ dry.pc = "returned"
    /\ ~dry.submitted.dry_run
    /\ dry.status = "completed"
    /\ dry.injection_result = "dry_run"
    /\ dry.config.chaos_type = "pod_delete"

\* ========================================================================
\* Properties of the guard functions (checked under SpecFn)
\* ========================================================================
\* the selector matched more than max_blast_radius of the namespace's pods
C15_Exceeds(c) ==
    c.total > 0 /\ c.matched * RatioDen > c.max_blast_radius * c.total

\* positions of a step in the steps taken
C15_At(c, step) == {j \in 1..Len(c.result.steps) : c.result.steps[j] = step}

\* both checks come before the dry-run return and before every deletion, the
\* emergency-stop check first
C15_Order(c) ==
    /\ c.result.steps[1] = "check_stop"
    /\ \A j \in C15_At(c, "delete") \cup C15_At(c, "dry_return") :
            \E i \in C15_At(c, "check_blast") : 1 < i /\ i < j
    /\ c.latch => c.result.steps = <<"check_stop">>
    /\ c.result.deleted = Cardinality(C15_At(c, "delete"))

\* C15: pod_delete checks the blast radius before it deletes anything: when
\* matched / total exceeds max_blast_radius it fails with the blast-radius
\* error, having deleted no pod and returning no compensate; the
\* emergency-stop check comes before the blast-radius check, and both before
\* the dry-run return and every deletion.
C15_BlastRadiusFirst ==
    fnCall.fn = "pod_delete" =>
        /\ C15_Order(fnCall)
        /\ (C15_Exceeds(fnCall) /\ ~fnCall.latch /\ fnCall.api # -1) =>
                /\ fnCall.result.error = "blast_radius"
                /\ fnCall.result.deleted = 0
                /\ ~fnCall.result.compensate
                /\ ~fnCall.result.dry_run
        /\ (C15_Exceeds(fnCall) /\ fnCall.latch) =>
                fnCall.result.error = "emergency_stop"

C15_Witness ==
    /\ fnCall.fn = "pod_delete"
    /\ ~fnCall.latch /\ ~fnCall.dry_run /\ fnCall.api = 0
    /\ fnCall.matched = 3 /\ fnCall.total = 3 /\ fnCall.max_blast_radius = 3
    /\ fnCall.result.error = "blast_radius"

\* C16: for affected >= 0, total >= 0 and a ratio in [0, 1],
\* validate_blast_radius(affected, total, ratio) is true exactly when
\* total = 0 or affected / total <= ratio; affected / total = ratio is
\* accepted, anything above is rejected.
C16_ValidateBlastRadius ==
    fnCall.fn = "validate_blast_radius" =>
        (fnCall.result <=>
            \/ fnCall.total_count = 0
            \/ fnCall.affected_count * RatioDen
                    <= fnCall.max_ratio * fnCall.total_count)

C16_Witness ==
    /\ fnCall.fn = "validate_blast_radius"
    /\ fnCall.total_count = 2 /\ fnCall.affected_count = 1
    /\ fnCall.max_ratio * 2 = RatioDen
    /\ fnCall.result

\* C17: an operation wrapped with require_confirmation(pattern) fails with
\* the confirmation error, the operation not being run, exactly when it is
\* given a config whose target namespace matches the pattern and whose
\* safety.require_confirmation is false; in every other case the operation
\* runs and its result is returned unchanged.
C17_ConfirmationRequired ==
    fnCall.fn = "require_confirmation" =>
        LET must == /\ fnCall.passing # "none"
                    /\ Truthy(fnCall.target_namespace)
                    /\ fnmatch(fnCall.target_namespace[1], fnCall.pattern)
                    /\ ~fnCall.confirmation
        IN  /\ fnCall.result.raised <=> must
            /\ fnCall.result.raised => ~fnCall.result.ran
            /\ ~fnCall.result.raised =>
                    fnCall.result.ran /\ fnCall.result.returned = "executed"

\* ------------------------------------------------------------------------
\* Properties of the record of a run (checked under Spec)
\* ------------------------------------------------------------------------
\* the values create_experiment gives to phase, in the order of its statements
PhaseOrder == <<"steady_state", "inject", "observe", "rollback">>

\* the phase of the record has only been advanced along PhaseOrder
C18_InOrder(r) ==
    /\ Len(r.phases) <= Len(PhaseOrder)
    /\ \A j \in 1..Len(r.phases) : r.phases[j] = PhaseOrder[j]
    /\ r.phase = r.phases[Len(r.phases)]

\* the body of run e has finished without error
C18_Finished(e) == pc[e] \in {"final_commit", "returned"}

\* the record of a run whose body finished without error
C18_Terminus(e) ==
    C18_Finished(e) =>
        /\ rec[e].status = "completed"
        /\ rec[e].phase = "rollback"
        /\ rec[e].completed_at
        /\ rec[e].phases = PhaseOrder

\* the last commit stores that record and the request answers 200
C18_Stored(e) ==
    pc[e] = "final_commit" /\ pc'[e] = "returned" =>
        db'[e] = rec'[e] /\ response'[e] = "200"

\* C18: a run whose body finishes without error ends with status completed,
\* phase rollback and completed_at set, and the phase of its record has only
\* ever advanced in the order steady_state, inject, observe, rollback.
C18_SuccessfulTerminus ==
    /\ [](\A e \in ExpIds : rec[e] # NoRec => C18_InOrder(rec[e]))
    /\ [](\A e \in ExpIds : C18_Terminus(e))
    /\ [][\A e \in ExpIds : C18_Stored(e)]_vars

\* C18 witness: a run on a namespace went through both get_steady_state
\* calls and the injection, and returned its completed record.
C18_Witness ==
    \E e \in ExpIds :
        /\ pc[e] = "returned"
        /\ config[e].target_namespace # NoNs
        /\ rec[e].steady_state /\ rec[e].observations
        /\ rec[e].status = "completed"
        /\ db[e] = rec[e]

\* ========================================================================
\* Properties of a body that returns (checked under SpecCtx)
\* ========================================================================
\* the ExperimentContext has been left, its body having returned
C19_LeftClean == ctx.pc = "left" /\ ~ctx.exc

\* C19: when the body of an ExperimentContext finishes without raising, no
\* rollback has been run for the experiment when the context has been left:
\* no compensate of the experiment has been executed, and every entry pushed
\* by the body is still on the stack.
C19_NoRollbackOnSuccess ==
    C19_LeftClean =>
        /\ execLog = <<>>
        /\ get_stack_size(stacks, LoopId) = nextFn

\* ========================================================================
\* Properties relating stacks and statuses (checked under Spec)
\* ========================================================================
\* the status of experiment e: that of its record object while the request
\* that runs it is alive, and of its stored row
C20_Statuses(e) ==
    {db[e].status} \cup
        (IF pc[e] \in {"idle"} \cup Terminal THEN {} ELSE {rec[e].status})

\* a stack holds entries only for an experiment that is running or failed
C20_NonEmptyOnlyRunningOrFailed(e) ==
    get_stack_size(stacks, e) > 0 =>
        C20_Statuses(e) \subseteq {"running", "failed"}

\* the stack of an experiment that is rolled_back is empty
C20_EmptyWhenRolledBack(e) ==
    "rolled_back" \in C20_Statuses(e) => get_stack_size(stacks, e) = 0

\* C20: in every reachable state the rollback stack of an experiment is
\* non-empty only if the experiment's status is running or failed, and it is
\* empty whenever the status is rolled_back.
C20_StackOnlyWhileRunningOrFailed ==
    \A e \in ExpIds :
        /\ C20_NonEmptyOnlyRunningOrFailed(e)
        /\ C20_EmptyWhenRolledBack(e)


\* ========================================================================
\* Properties of the stored status (checked under Spec)
\* ========================================================================
\* C21: in every reachable state a record whose status is completed or
\* rolled_back has completed_at set, whichever path led there, the explicit
\* rollback of a failed experiment included.
C21_CompletedAtSet ==
    \A e \in ExpIds :
        /\ db[e].status \in {"completed", "rolled_back"} => db[e].completed_at
        /\ rec[e].status \in {"completed", "rolled_back"} => rec[e].completed_at

\* a change of a status that the order allows
C22_Forward(old, new) ==
    \/ new = old
    \/ old = "none" /\ new = "running"
    \/ old = "running" /\ new \in {"completed", "failed"}
    \/ old \in {"completed", "failed"} /\ new = "rolled_back"

\* C22: the stored status of an experiment, and the status of the record
\* object of its run, only move forward along running -> {completed, failed}
\* -> rolled_back: rolled_back is entered only from completed or failed,
\* completed or failed never goes back to running, and rolled_back never
\* changes again, whatever the interleaving of the run with rollback requests.
C22_StatusMonotonic ==
    [][\A e \in ExpIds :
            /\ C22_Forward(db[e].status, db'[e].status)
            /\ C22_Forward(rec[e].status, rec'[e].status)]_vars

\* ========================================================================
\* Properties of the rollback endpoint (checked under Spec)
\* ========================================================================
\* a rollback request for e is answered in this step
C23_Answers(e, answer) == apiPc[e] # answer /\ apiPc'[e] = answer

\* a request for an id without a record is answered 404, and only such a
\* request is; it changes no stack and no record
C23_NotFound(e) ==
    /\ apiPc[e] = "idle" /\ apiPc'[e] # "idle" /\ db[e] = NoRec
            => apiPc'[e] = "not_found"
    /\ C23_Answers(e, "not_found") =>
            /\ db[e] = NoRec
            /\ UNCHANGED <<stacks, db, rec, execLog, target>>

\* a request for a known id detaches the whole stack of the id
C23_Drains(e) ==
    apiPc[e] = "idle" /\ apiPc'[e] \in {"rollback", "commit"} =>
        /\ apiRb'[e].stack = DictGet(stacks, e)
        /\ ~DictHas(stacks', e)

\* the answer for a known id, given when the commit is done: one result per
\* detached entry, last pushed first, each compensate invoked once, and the
\* stored status is rolled_back
C23_Returned(e) ==
    apiPc[e] = "commit" /\ apiPc'[e] = "idle" =>
        LET frame == apiRb[e]
            lifo == reversed(frame.stack)
        IN  /\ Len(frame.results) = Len(frame.stack)
            /\ \A j \in 1..Len(lifo) :
                    /\ frame.results[j].description = lifo[j].description
                    /\ Starts(lifo[j].rollback_fn) = 1
            /\ db'[e].status = "rolled_back"

\* a repeated request, nothing having been pushed since the last one,
\* detaches nothing and runs nothing
C23_Repeated(e) ==
    apiPc[e] = "idle" /\ apiPc'[e] # "idle" /\ e \notin pushedSince =>
        /\ apiPc'[e] \in {"not_found", "commit"}
        /\ apiRb'[e].results = <<>>
        /\ execLog' = execLog

\* C23: POST /api/chaos/experiments/{id}/rollback answers 404 for an id with
\* no record and then changes no stack and no record; for a known id it
\* drains the stack, returns the per-entry results and sets status
\* rolled_back; a repeated call returns an empty list and runs no compensate
\* again.
C23_RollbackEndpoint ==
    [][\A e \in ExpIds : /\ C23_NotFound(e)
                          /\ C23_Drains(e)
                          /\ C23_Returned(e)
                          /\ C23_Repeated(e)]_vars

\* C23 witness: the run of e completed and kept its entry, a first rollback
\* request restored the target and stored rolled_back, and a second one has
\* found nothing to roll back and is about to answer with an empty list.
C23_Witness ==
    \E e \in ExpIds :
        /\ pc[e] = "returned" /\ rec[e].status = "completed"
        /\ target[e] = "restored"
        /\ db[e].status = "rolled_back"
        /\ apiPc[e] = "commit" /\ apiRb[e].pc = "done" /\ apiRb[e].results = <<>>

\* ========================================================================
\* Properties of rollback_all (checked under SpecRA)
\* ========================================================================
\* the keys of all_results, in the order they were set
C24_Keys(a) == [k \in 1..Len(a.all_results) |-> a.all_results[k].id]

\* the entries that were on a stack when rollback_all was called
C24_Entries(a) ==
    UNION {FnsOf(a.stacks0[k].list) : k \in 1..Len(a.stacks0)}

\* the call takes the ids that have a stack at that moment
C24_Snapshot ==
    allCall.pc = "idle" /\ allCall'.pc # "idle" =>
        allCall'.experiment_ids = get_active_experiments(stacks)

\* the result list of a key is that of a rollback of the id: one result per
\* detached entry, last pushed first, its compensate invoked once
C24_Lifo(r) ==
    /\ Len(r.results) = Len(r.stack)
    /\ \A fn \in FnsOf(r.stack) : Starts(fn) = 1
    /\ \A j \in 1..Len(r.stack) :
            r.results[j].description = reversed(r.stack)[j].description

\* what rollback_all returns
C24_Returned ==
    allCall.pc = "done" =>
        /\ C24_Keys(allCall) = allCall.experiment_ids
        /\ \A k \in 1..Len(allCall.all_results) : C24_Lifo(allCall.all_results[k])
        /\ \A fn \in C24_Entries(allCall) : ~OnStacks(fn)
        /\ nextFn = allCall.nextFn0 => get_active_experiments(stacks) = <<>>

\* C24: rollback_all() rolls back exactly the ids that have a stack when it
\* is called: its result has one key per such id, mapped to the LIFO result
\* list of that id's rollback, and with no push made meanwhile no experiment
\* is active once it returns.
C24_RollbackAll ==
    /\ []C24_Returned
    /\ [][C24_Snapshot]_vars

\* C24 witness: rollback_all returns the results of two experiments, one of
\* them with two entries, nothing having been pushed meanwhile.
C24_Witness ==
    /\ allCall.pc = "done"
    /\ Len(allCall.all_results) = 2
    /\ \E k \in 1..2 : Len(allCall.all_results[k].results) = 2
    /\ \A k \in 1..2 : allCall.all_results[k].results # <<>>
    /\ nextFn = allCall.nextFn0

\* ========================================================================
\* Properties of the emergency-stop latch (checked under Spec)
\* ========================================================================
\* what the program holds, the latch apart (the histories are left out)
C25_Program ==
    <<stacks, calls, allCall, nextFn, runVars, apiVars, emergency_stop_event,
      db, snapshots, target, actuated, dry, fnCall, hcVars, ctxVars>>

\* C25: once trigger() has been called the latch stays set until reset():
\* a step that clears it is a reset(), trigger() on a set latch changes
\* nothing, and no other step (a run ending, a rollback, the application
\* starting or shutting down) clears it.
C25_LatchHolds ==
    /\ [][estop /\ ~estop' => Reset]_vars
    /\ [][estop /\ Trigger => estop' /\ UNCHANGED C25_Program]_vars
    /\ [][Startup \/ Shutdown => estop' = estop]_vars

\* C25 witness: the latch is set, and since then a run was refused, nothing
\* being in flight, and the application has shut down.
C25_Witness ==
    /\ estop
    /\ emergency_stop_event /\ ~stopPosted
    /\ \E e \in ExpIds : pc[e] = "refused"
    /\ \E e \in ExpIds : db[e].status = "rolled_back"

\* ========================================================================
\* Properties of the snapshots (checked under SpecFn)
\* ========================================================================
\* the call is a capture during which a query of the infrastructure failed
C26_QueryFailed(c) ==
    \/ c.fn = "capture_k8s_snapshot"
            /\ Raises \in {c.pods, c.deployments, c.services}
    \/ c.fn = "capture_aws_snapshot" /\ c.described = Raises

\* the snapshot holds no resource
C26_Empty(snapshot) ==
    IF snapshot.type = "k8s"
    THEN snapshot.pods = <<>> /\ snapshot.deployments = <<>>
            /\ snapshot.services = <<>>
    ELSE snapshot.state = <<>>

\* C26: capture_k8s_snapshot and capture_aws_snapshot never raise: whether a
\* query of the infrastructure fails or persisting fails, they return, and
\* store under the experiment id, a snapshot with captured_at set, and when a
\* query failed its resource lists (k8s) or its state (aws) are empty.
C26_CaptureNeverRaises ==
    fnCall.fn \in {"capture_k8s_snapshot", "capture_aws_snapshot"} =>
        /\ ~fnCall.result.raised
        /\ fnCall.result.stored = fnCall.result.returned
        /\ fnCall.result.returned.captured_at
        /\ C26_QueryFailed(fnCall) => C26_Empty(fnCall.result.returned)

\* the pod_missing actions (status detected) returned for a name
C27_Missing(c, name) ==
    Len(SelectSeq(c.result.actions,
                  LAMBDA a : a.action = "pod_missing" /\ a.name = name
                                /\ a.status = "detected"))

\* what restore_from_snapshot returned
C27_Result ==
    fnCall.fn = "restore_from_snapshot" =>
        /\ fnCall.result.none <=> fnCall.snapshot = NoSnapshot
        /\ fnCall.snapshot # NoSnapshot /\ ~fnCall.current.raises =>
                /\ \A name \in PodNames :
                        C27_Missing(fnCall, name) =
                            IF name \in Range(fnCall.snapshot.pods)
                                    /\ name \notin fnCall.current.names
                            THEN 1 ELSE 0
                /\ \A j \in 1..Len(fnCall.result.actions) :
                        fnCall.result.actions[j].action = "pod_missing"
        /\ fnCall.result.snapshot = fnCall.snapshot

\* the call changes no rollback stack, no snapshot and no target
C27_Advisory ==
    fnCall'.fn = "restore_from_snapshot" /\ fnCall.fn = "none" =>
        UNCHANGED <<stacks, snapshots, target, actuated>>

C28_InRange(s) ==
    /\ s.timeout_seconds \in 1..120
    /\ s.max_blast_radius \in 0..RatioDen
    /\ s.health_check_interval \in 1..60
    /\ s.health_check_failure_threshold \in 1..10

\* C28: every SafetyConfig accepted by validation has timeout_seconds in
\* [1,120], max_blast_radius in [0,1], health_check_interval in [1,60] and
\* health_check_failure_threshold in [1,10]; a submitted value outside its
\* range is rejected with a validation error and no config reaches
\* create_experiment
C28_AcceptedInRange ==
    fnCall.fn = "post_experiments" =>
        /\ \A c \in fnCall.result.configs : C28_InRange(c)
        /\ ~C28_InRange(fnCall.safety) =>
              /\ fnCall.result.status = "validation_error"
              /\ fnCall.result.configs = {}

\* a body with timeout_seconds = 121 and the other fields at their limits
\* was submitted and rejected
C28_Witness ==
    /\ fnCall.fn = "post_experiments"
    /\ fnCall.safety.timeout_seconds = 121
    /\ fnCall.safety.max_blast_radius = RatioDen
    /\ fnCall.safety.health_check_interval = 60
    /\ fnCall.safety.health_check_failure_threshold = 1
    /\ fnCall.result.status = "validation_error"


\* ========================================================================
\* Properties of the order of the steps of one run (checked under Spec)
\* ========================================================================
\* steps of run e, each seen as the step of the program that finishes it
C29_SteadyStateRead(e) == ~rec[e].steady_state /\ rec'[e].steady_state
C29_SnapshotCaptured(e) == e \notin snapshots /\ e \in snapshots'
C29_Injected(e) == e \notin actuated /\ e \in actuated'
C29_Pushed(e) == get_stack_size(stacks', e) > get_stack_size(stacks, e)
C29_ObserveStarted(e) ==
    rec[e].phases[Len(rec[e].phases)] = "inject" /\ "observe" \in Range(rec'[e].phases)

\* C29: within one experiment the steps happen strictly in the order
\* steady-state capture, pre-snapshot, inject, rollback-push, observe: the
\* steady-state baseline has been read when the pre-experiment snapshot is
\* captured, the snapshot has been captured when the actuator is invoked,
\* the compensate is pushed only once the actuator has returned, and it has
\* been pushed when observation starts.
C29_StepOrder ==
    [][\A e \in ExpIds : rec[e] # NoRec /\ rec'[e] # NoRec =>
        /\ C29_SnapshotCaptured(e) => rec[e].steady_state
        /\ C29_Injected(e) =>
              (config[e].target_namespace # NoNs =>
                  e \in snapshots /\ ~C29_SteadyStateRead(e))
        /\ C29_Pushed(e) => e \in actuated'
        /\ C29_ObserveStarted(e) /\ ~config[e].dry_run =>
              C29_Pushed(e) \/ get_stack_size(stacks, e) > 0]_vars

\* ========================================================================
\* Properties of the pre-experiment snapshot (checked under Spec)
\* ========================================================================
\* C30: for every experiment, whatever its chaos_type and whether or not
\* target_namespace is set, a snapshot keyed by the experiment id has been
\* captured and stored when the actuator is invoked.
C30_SnapshotBeforeActuator ==
    \A e \in ExpIds : e \in actuated => e \in snapshots

\* ========================================================================
\* Properties of the health loop of a run (checked under SpecProbes)
\* ========================================================================
\* the config has at least one probe with mode continuous
C31_HasContinuous(cfg) ==
    \E j \in 1..Len(cfg.probes) : cfg.probes[j] = "continuous"

\* C31: when create_experiment runs a config with at least one continuous
\* probe, a HealthCheckLoop has been built and started when the actuator is
\* invoked; with no continuous probe in the config no loop is started.
C31_LoopStartedForProbes ==
    \A e \in ExpIds :
        /\ e \in actuated => (health_loop[e] <=> C31_HasContinuous(config[e]))
        /\ health_loop[e] => C31_HasContinuous(config[e])


\* ========================================================================
\* Properties of a run whose health loop triggers (checked under SpecCtx)
\* ========================================================================
\* the body of the context ends in this step without raising
C32_BodyReturns == ctx.pc = "body" /\ ctx'.pc # "body" /\ ~ctx'.exc

\* C32: once the HealthCheckLoop of a running experiment has reached its
\* failure threshold and triggered, the experiment is aborted: its body
\* registers no further compensate and does not end without an error.
C32_LoopAbortsRun ==
    [][triggers > 0 => nextFn' = nextFn /\ ~C32_BodyReturns]_vars

\* ========================================================================
\* Properties of the confirmation gate of a run (checked under SpecFn)
\* ========================================================================
\* the call is the actuator invocation of a pod_delete experiment whose
\* target namespace matches the confirmation pattern and whose
\* safety.require_confirmation is false
C33_NeedsConfirmation ==
    /\ fnCall.fn = "run_pod_delete"
    /\ Truthy(fnCall.target_namespace)
    /\ fnmatch(fnCall.target_namespace[1], fnCall.namespace_pattern)
    /\ ~fnCall.confirmation

\* C33: an experiment whose target namespace matches the confirmation
\* pattern and whose safety.require_confirmation is false is rejected with
\* ConfirmationRequired during actuator invocation, before anything is
\* mutated.
C33_ConfirmationGate ==
    C33_NeedsConfirmation =>
        /\ fnCall.result.error = "confirmation_required"
        /\ fnCall.result.deleted = 0


\* ========================================================================
\* Properties of the target after a failed run (checked under Spec)
\* ========================================================================
\* the failure path of run e has finished: the error is with the caller
C34_FailureDone(e) == pc[e] = "raised" /\ rec[e].status = "failed"

\* C34: whenever the failure path of a run has finished, every mutation its
\* actuator performed on the target has been compensated: the target is not
\* left mutated, also when the actuator raised part-way through a
\* multi-resource injection; stated for pod_delete, the claim's example.
C34_TargetNotLeftWorse ==
    \A e \in ExpIds :
        C34_FailureDone(e) /\ config[e].chaos_type = "pod_delete" =>
            target[e] # "mutated"

\* ========================================================================
\* Properties of a cancelled run (checked under SpecCancel)
\* ========================================================================
\* run e was cancelled inside the body and its request has ended
C35_CancelledDone(e) == pc[e] = "raised" /\ response[e] = "cancelled"

C36_RaisingReachesAbort ==
    hc.consecutive_failures >= hcConf.failure_threshold => triggers > 0

\* ========================================================================
\* Properties of a stop requested during a sweep (checked under SpecHC)
\* ========================================================================
\* C37: after stop() has been requested on a HealthCheckLoop, so that its stop
\* signal is set, the loop invokes neither on_failure nor rollback any more,
\* also when the sweep in progress at that moment ends failing with the
\* counter at the threshold.
C37_NoTriggerAfterStop == [][hc.stopped => triggers' = triggers]_vars

\* ========================================================================
\* Properties of the trigger count (checked under SpecHC)
\* ========================================================================
\* C38: over the life of one started HealthCheckLoop the trigger action
\* (on_failure, or rollback when none is supplied) is invoked at most once,
\* also when the on_failure callback itself raises.
C38_TriggerAtMostOnce == hc.starts = 1 => triggers <= 1

\* ========================================================================
\* Properties of the end of every run (checked under Spec)
\* ========================================================================
\* the request for experiment e has ended, by a response or by an error
C39_RequestEnded(e) == pc[e] \in {"returned", "raised"}

C40_InOrder ==
    hc.at = "probe" =>
        /\ hc.probe \in 1..hcConf.probes
        /\ Len(hc.results) >= hc.probe - 1
        /\ \A i \in 1..(hc.probe - 1) :
               hc.results[Len(hc.results) - (hc.probe - 1) + i].probe = i

\* one probe execution at a time: one task, at one await
C40_NoOverlap == hc.tasks <= 1

\* a result is appended by the probe that was awaited, whether it passed or
\* not, and the next probe of the sweep follows it
C40_Appends ==
    hc'.results # hc.results =>
        /\ hc.at = "probe"
        /\ Len(hc'.results) = Len(hc.results) + 1
        /\ SubSeq(hc'.results, 1, Len(hc.results)) = hc.results
        /\ hc'.results[Len(hc'.results)].probe = hc.probe
        /\ hc.probe < hcConf.probes =>
               hc'.at = "probe" /\ hc'.probe = hc.probe + 1

\* a sweep starts from the start of the task or from the end of the wait
\* that followed the sweep before
C40_CycleStart == hc'.sweeps = hc.sweeps + 1 => hc.at \in {"start", "wait"}

\* C40: within one health-check cycle every configured probe's safe_execute
\* is invoked exactly once, one after another in configured order, a failing
\* probe not skipping the later ones; each result is appended to the results
\* in that order; a cycle starts only after the previous cycle and its wait
\* have finished, and probe executions of one loop never overlap.
C40_CyclesSequential ==
    /\ [](C40_InOrder /\ C40_NoOverlap)
    /\ [][C40_Appends /\ C40_CycleStart]_vars
====
